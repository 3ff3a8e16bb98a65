------------------------------ MODULE Spu2Voice ------------------------------
(***************************************************************************)
(* A voice of the SPU2 shadow: the two-tick delay of key-on, the ADPCM       *)
(* stream that follows the loop flags of its blocks, the resampling by a     *)
(* pitch the guest may change between any two ticks, and the ADSR envelope.  *)
(* Words are scaled down: One is 4096 and Full + 1 is 32768.                *)
(*                                                                         *)
(* A sample is its block and its place in it; its value, the decoder's       *)
(* history of two samples and the mixing of voices are data.  An envelope's  *)
(* setting is a rate for each phase: what a step adds to the level, and what *)
(* a tick adds to the counter that times the steps.                         *)
(***************************************************************************)
EXTENDS Integers, Sequences, SequencesExt, FiniteSetsExt

CONSTANTS
  Blocks,     \* blocks of 16 bytes in SPU2 RAM: their addresses are 0..Blocks-1
  Samples,    \* 28, of a block
  One,        \* 4096: a pitch of one sample per tick
  Pitches,    \* up to 0x3FFF, where configure cuts them
  Full,       \* 32767
  Knee,       \* 0x6000
  Settings,   \* [phase -> [delta, increment, down, exp]], with the level decay ends at
  Memories,   \* [address -> block]
  MaxPath, MaxOwed \* bounds of TLC: blocks decoded and pitches owed since key-on

BlockAddresses == 0..(Blocks - 1)
Block == [bad : BOOLEAN, end : BOOLEAN, repeat : BOOLEAN, start : BOOLEAN]
Rate == [delta : Int, increment : Nat, down : BOOLEAN, exp : BOOLEAN]
Phases == {"attack", "decay", "sustain", "release", "stopped"}

(* What the constants must be.                                              *)
VoiceAssumption ==
  /\ Blocks \in Nat \ {0} /\ Samples \in Nat \ {0} /\ One \in Nat \ {0} /\ Full \in Nat \ {0}
  /\ Pitches \subseteq Nat /\ Memories \subseteq [BlockAddresses -> Block]
  /\ \A s \in Settings : /\ s.floor \in 0..Full
                         /\ \A p \in Phases \ {"stopped"} :
                              s[p] \in Rate /\ s[p].down = (s[p].delta < 0) /\ s[p].delta # 0
                         /\ s.decay.down /\ s.release.down

VARIABLES
  memory, setting, \* of this behaviour; the guest does not rewrite them
  delay,      \* spu2_shadow_delay_
  voice,      \* Spu2Voice: active, error, index, pending
  stream,     \* Spu2AdpcmStream: next, loop, active, manual
  env,        \* Spu2Envelope: phase, level, counter
  note        \* history since key-on: path, the blocks decoded, each with the manual loop
              \* address then set; owed, the pitches of the ticks; taken, samples;
              \* wanted: the last key write was key-on

vars == <<memory, setting, delay, voice, stream, env, note>>

None == -1

-----------------------------------------------------------------------------
(* Spu2Envelope::tick                                                       *)

(* Division that rounds down, as the code writes it with C's, which rounds  *)
(* to zero; the mutant leaves it to C's.                                    *)
CDiv(n, d) == IF n >= 0 THEN n \div d ELSE -((-n) \div d)
FloorDivAsC(n, d) == CDiv(n, d)
FloorDiv(n, d) == IF n >= 0 THEN CDiv(n, d) ELSE -CDiv(-n + d - 1, d)

Delta(r, level) == IF r.exp /\ r.down THEN FloorDiv(r.delta * level, Full + 1) ELSE r.delta
Increment(r, level) ==
  Max({1, IF r.exp /\ ~r.down /\ level > Knee THEN r.increment \div 4 ELSE r.increment})
Clamp(level) == Max({0, Min({level, Full})})

NextPhase(phase, level) ==
  CASE phase = "attack" /\ level = Full           -> "decay"
    [] phase = "decay" /\ level <= setting.floor  -> "sustain"
    [] phase \in {"sustain", "release"} /\ level = 0 -> "stopped"
    [] OTHER -> phase

Envelope(e) ==
  IF e.phase = "stopped" THEN e
  ELSE LET r == setting[e.phase]
           counter == e.counter + Increment(r, e.level)
           due == counter >= Full + 1
           level == IF due THEN Clamp(e.level + Delta(r, e.level)) ELSE e.level
       IN  [level |-> level, counter |-> IF due THEN 0 ELSE counter,
            phase |-> NextPhase(e.phase, level)]

-----------------------------------------------------------------------------
(* Spu2AdpcmStream::decode_next: after a block's end flag the loop address,  *)
(* if the repeat flag is set too.                                           *)
DecodeNext(s) ==
  LET b == memory[s.next]
      loop == IF b.start /\ ~s.manual THEN s.next ELSE s.loop
  IN  [s EXCEPT !.loop = loop,
                !.next = IF b.end THEN loop ELSE (@ + 1) % Blocks,
                !.active = ~b.end \/ b.repeat]

(* Spu2Voice::tick, in its loop: one sample is taken, from the next block   *)
(* when this one is used up.                                                *)
Decodes(t) == t.voice.index = Samples /\ t.stream.active /\ ~memory[t.stream.next].bad

TakeSample(t) ==
  LET manual == IF t.stream.manual THEN t.stream.loop ELSE None
      d == IF Decodes(t)
           THEN [t EXCEPT !.stream = DecodeNext(@), !.voice.index = 0,
                          !.note.path = Append(@, [block |-> t.stream.next, manual |-> manual])]
           ELSE t
  IN  IF ~t.voice.active \/ t.voice.pending < One THEN t
      ELSE IF t.voice.index = Samples /\ ~Decodes(t)
      THEN [t EXCEPT !.voice.error = t.stream.active, !.voice.active = FALSE]
      ELSE [d EXCEPT !.voice.index = @ + 1, !.voice.pending = @ - One, !.note.taken = @ + 1]

(* As many as are pending; then the pitch is owed.                          *)
Consume(t) ==
  LET pending == t.voice.pending \div One
      after[n \in 0..pending] == IF n = 0 THEN t ELSE TakeSample(after[n - 1])
  IN  after[pending]
Play(t, pitch) ==
  LET c == Consume(t)
  IN  IF c.voice.active THEN [c EXCEPT !.voice.pending = @ + pitch, !.note.owed = @ + pitch]
                        ELSE c

VoiceTick(t, pitch) ==
  LET e == [t EXCEPT !.env = Envelope(@)]
  IN  IF ~t.voice.active THEN t
      ELSE IF e.env.phase = "stopped" THEN [e EXCEPT !.voice.active = FALSE]
      ELSE Play(e, pitch)

(* Spu2Voice::key_on                                                        *)
Started(t, a) ==
  [stream |-> [next |-> a, loop |-> a, active |-> TRUE, manual |-> FALSE],
   env |-> [phase |-> "attack", level |-> 0, counter |-> 0],
   voice |-> [active |-> TRUE, error |-> FALSE, index |-> Samples, pending |-> One],
   note |-> [t.note EXCEPT !.path = <<>>, !.owed = 0, !.taken = 0]]

-----------------------------------------------------------------------------
(* spu2_shadow_write, advance_spu2_shadow                                   *)

KeyOn ==
  /\ delay' = 2 /\ note' = [note EXCEPT !.wanted = TRUE]
  /\ UNCHANGED <<memory, setting, voice, stream, env>>

(* Also of a voice whose key-on is not through yet; the mutant forgets it.  *)
KeptDelay == delay
DroppedDelay == 0
KeyOff ==
  /\ delay' = DroppedDelay /\ note' = [note EXCEPT !.wanted = FALSE]
  /\ env' = IF env.phase = "stopped" THEN env ELSE [env EXCEPT !.phase = "release", !.counter = 0]
  /\ UNCHANGED <<memory, setting, voice, stream>>

SetLoopAddress ==
  /\ \E a \in BlockAddresses : stream' = [stream EXCEPT !.loop = a, !.manual = TRUE]
  /\ UNCHANGED <<memory, setting, delay, voice, env, note>>

(* A tick, with the pitch the registers hold then; the one that starts a    *)
(* note, also with the start address.                                       *)
TickOf(before) ==
  /\ note.owed < MaxOwed /\ Len(note.path) < MaxPath
  /\ \E pitch \in Pitches :
       LET t == VoiceTick(before, pitch)
       IN  voice' = t.voice /\ stream' = t.stream /\ env' = t.env /\ note' = t.note
  /\ delay' = IF delay = 0 THEN 0 ELSE delay - 1
  /\ UNCHANGED <<memory, setting>>

Now == [voice |-> voice, stream |-> stream, env |-> env, note |-> note]
Tick == (voice.active \/ delay # 0) /\ delay # 1 /\ TickOf(Now)
StartingTick == delay = 1 /\ \E a \in BlockAddresses : TickOf(Started(Now, a))

Init ==
  /\ memory \in Memories /\ setting \in Settings
  /\ delay = 0
  /\ voice = [active |-> FALSE, error |-> FALSE, index |-> Samples, pending |-> 0]
  /\ stream = [next |-> 0, loop |-> 0, active |-> FALSE, manual |-> FALSE]
  /\ env = [phase |-> "stopped", level |-> 0, counter |-> 0]
  /\ note = [path |-> <<>>, owed |-> 0, taken |-> 0, wanted |-> FALSE]

Next == KeyOn \/ KeyOff \/ SetLoopAddress \/ Tick \/ StartingTick

Spec == Init /\ [][Next]_vars

-----------------------------------------------------------------------------
(* Properties                                                               *)

(* Samples are taken at the pitch, without drift, however it changes.       *)
InPitch ==
  note.path # <<>> => /\ note.taken * One + voice.pending = One + note.owed
                      /\ note.taken = (Len(note.path) - 1) * Samples + voice.index

(* The blocks follow each other as their flags say: to the address the      *)
(* guest has set, else to the last one marked as a loop's start, else to    *)
(* where the note began; one without repeat is the last.                    *)
LoopOf(path, i, manual) ==
  LET starts == {j \in 1..i : memory[path[j].block].start}
  IN  IF manual # None THEN manual
      ELSE IF starts = {} THEN path[1].block ELSE path[Max(starts)].block
Follows(path, i) ==
  LET b == memory[path[i].block]
  IN  /\ ~b.bad
      /\ b.end => b.repeat
      /\ IF b.end
         THEN path[i + 1].block \in {LoopOf(path, i, path[i].manual)}
         ELSE path[i + 1].block = (path[i].block + 1) % Blocks
FollowsFlags == \A i \in 1..(Len(note.path) - 1) : Follows(note.path, i)

(* A voice falls silent by its envelope, by the end of its sample, or with  *)
(* an error; an end without repeat is no error.                             *)
StopsForAReason ==
  ~voice.active /\ note.path # <<>> =>
    LET last == memory[Last(note.path).block]
    IN  \/ env.phase = "stopped" /\ ~voice.error
        \/ voice.index = Samples /\ (voice.error <=> (~last.end \/ last.repeat))

(* Key-off is never lost, neither to a playing note nor to one about to     *)
(* start, and a released note ends: each tick of a release moves the        *)
(* counter on or the level down.                                            *)
KeyOffHeard == ~note.wanted => delay = 0 /\ env.phase \in {"release", "stopped"}
Fades ==
  LET after == Envelope(env)
  IN  env.phase \in {"release", "decay"} /\ after.phase = env.phase =>
        after.level < env.level \/ (after.level = env.level /\ after.counter > env.counter)

(* A voice of the SPU2 plays its note.                                      *)
VoiceExact == InPitch /\ FollowsFlags /\ StopsForAReason /\ KeyOffHeard /\ Fades
===============================================================================
