----------------------------- MODULE GraphicsPath -----------------------------
(***************************************************************************)
(* The stages of the graphics path one after the other: each behaviour is   *)
(* one of the chains VIF1 is fed by, of the VIF1 stream or of the GIF       *)
(* stream.  What one stage hands to the next is a sequence of packets; of   *)
(* the streams, it is shown that only its order matters.  The constants are *)
(* explained where each stage declares them.                                *)
(***************************************************************************)
EXTENDS Integers, Sequences

CONSTANTS
  Ram, Spr, MaxTags, MaxCalls, Chains, MaxPath,   \* VifChain
  Streams, VuSize,                                \* Vif1Stream
  Menus                                           \* GifStream

VARIABLES
  part,       \* the stage this behaviour is of: "dma", "vif1" or "gif"
  chain, tadr, outcome, walk, path, delivered,
  commands, sent, vif, got, history,
  menu, gif, unsent, writes

Dma == INSTANCE VifChain
Vif == INSTANCE Vif1Stream
Gif == INSTANCE GifStream

ASSUME Constants == Dma!ChainAssumption /\ Vif!StreamAssumption /\ Gif!MenuAssumption

dmaVars == <<chain, tadr, outcome, walk, path, delivered>>
vifVars == <<commands, sent, vif, got, history>>
gifVars == <<menu, gif, unsent, writes>>
vars == <<part, dmaVars, vifVars, gifVars>>

None == <<>>

(* The state of a stage that a behaviour is not of.                          *)
NoDma == chain = None /\ tadr = None /\ outcome = None /\ walk = None /\ path = None /\ delivered = None
NoVif == commands = None /\ sent = None /\ vif = None /\ got = None /\ history = None
NoGif == menu = None /\ gif = None /\ unsent = None /\ writes = None

Init == \/ part = "dma" /\ Dma!Init /\ NoVif /\ NoGif
        \/ part = "vif1" /\ Vif!Init /\ NoDma /\ NoGif
        \/ part = "gif" /\ Gif!Init /\ NoDma /\ NoVif

Next == /\ UNCHANGED part
        /\ \/ part = "dma" /\ Dma!Next /\ UNCHANGED <<vifVars, gifVars>>
           \/ part = "vif1" /\ Vif!Next /\ UNCHANGED <<dmaVars, gifVars>>
           \/ part = "gif" /\ Gif!Next /\ UNCHANGED <<dmaVars, vifVars>>

Spec == Init /\ [][Next]_vars

-----------------------------------------------------------------------------
(* The properties of each stage, stated and explained in its module.         *)

(* VifChain: the channel transfers what the tags describe, and can be        *)
(* restarted where a transfer ended.                                         *)
ChainExact == part = "dma" => Dma!ChainExact
(* Vif1Stream: PATH1 and DIRECT packets reach the GIF whole and in order.    *)
OutputInOrder == part = "vif1" => Vif!OutputInOrder
(* Vif1Stream: a program finds at TOP what was uploaded for it.              *)
UploadSeen == part = "vif1" => Vif!UploadSeen
(* GifStream: however packets are cut, the primitives the tags describe.     *)
DrawnAsWritten == part = "gif" => Gif!DrawnAsWritten
(* GifStream: a transfer gets the image data in order, as much as fits.      *)
ImageInOrder == part = "gif" => Gif!ImageInOrder
===============================================================================
