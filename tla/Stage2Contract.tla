--------------------------- MODULE Stage2Contract ---------------------------
(***************************************************************************)
(* What the second stage promises to those that come after it: of a disk   *)
(* it supports, on a BIOS that answers, it hands over a BiosInfo with the  *)
(* true lengths of the files, the addresses BiosLayout gives them and the  *)
(* memory map of the BIOS; it stops only on others.  Stage2 implements     *)
(* this specification and BiosBoot is composed with it.                    *)
(***************************************************************************)
EXTENDS BiosLayout

VARIABLES
  given,     \* what is on the disk and in the BIOS, see Given
  reached,   \* "running", then "stage3" or "stopped"
  info       \* the BiosInfo, once handed over

vars == <<given, reached, info>>

NoInfo == << >>

\* `sound`: the disk is one the stage supports; `answering`: so is the BIOS;
\* `lens`: the lengths of the files, 0 for a file that is not there; `entries`:
\* the non-empty memory regions the BIOS reports.
IsGiven(g) ==
  /\ {g.sound, g.answering} \subseteq BOOLEAN
  /\ g.sound => /\ g.lens \in [Files -> Nat]
                /\ \A f \in Files \ Optional : g.lens[f] # 0

Init ==
  /\ IsGiven(given)
  /\ reached = "running"
  /\ info = NoInfo

HandOver ==
  /\ reached = "running"
  /\ given.sound
  /\ reached' = "stage3"
  /\ info' = BiosInfo(given.lens, given.entries)
  /\ UNCHANGED given

Stop ==
  /\ reached = "running"
  /\ ~(given.sound /\ given.answering)
  /\ reached' = "stopped"
  /\ UNCHANGED <<given, info>>

\* Nothing is promised of a disk that is not supported.
Unspecified ==
  /\ reached = "running"
  /\ ~given.sound
  /\ reached' \in {"stage3", "stopped"}
  /\ UNCHANGED given

Next == HandOver \/ Stop \/ Unspecified

Spec == Init /\ [][Next]_vars

=============================================================================
