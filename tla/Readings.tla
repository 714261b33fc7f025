------------------------------ MODULE Readings ------------------------------
(***************************************************************************)
(* What is said of a file beside the origin of its bytes: the watermark    *)
(* that comes back from its pixels, what its position is worth, and what   *)
(* the command line answers about it.  They share no state: a behaviour    *)
(* follows one of them while the others rest.                              *)
(***************************************************************************)
EXTENDS Watermark, Location, CommandLine

VARIABLE subject
readingVars == <<photoVars, watermarkVars, locationVars, cliVars, subject>>

\* The parts a behaviour does not follow are in one of their initial states.
Init ==
  /\ subject \in {"watermark", "location", "command line"}
  /\ subject # "watermark" => claim = CHOOSE c \in Claims : c.layout = Video
  /\ WatermarkInit
  /\ claim.layout # Photo => sent = (CHOOSE w \in Embedded : TRUE) /\ came = sent
  /\ PhotoInit
  /\ subject # "location" => location = (CHOOSE p \in Positions : TRUE) /\ signers = {}
  /\ LocationInit
  /\ subject # "command line" => options = CHOOSE o \in Commands : TRUE
  /\ CommandInit

Next ==
  /\ \/ subject = "watermark" /\ WatermarkNext /\ UNCHANGED <<locationVars, cliVars>>
     \/ subject = "location" /\ LocationNext /\ UNCHANGED <<photoVars, watermarkVars, cliVars>>
     \/ /\ subject = "command line" /\ CommandNext
        /\ UNCHANGED <<photoVars, watermarkVars, locationVars>>
  /\ UNCHANGED subject

Spec == Init /\ [][Next]_readingVars
=============================================================================
