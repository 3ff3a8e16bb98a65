------------------------------ MODULE MCElfImage ------------------------------
(* ElfImage with the files and translations of MCElfFiles for TLC.           *)
EXTENDS ElfImage, MCElfFiles
===============================================================================
