---------------------------- MODULE PublishedBook ----------------------------
(***************************************************************************)
(* What an assembled book promises its readers, whatever service assembles *)
(* it (main, edit, change or supplement): at any moment there is at most   *)
(* one official version, it is always the newest one, version numbers are  *)
(* given out without gaps and never reused, and the project list of a      *)
(* published version never changes again.                                  *)
(***************************************************************************)
EXTENDS Naturals

CONSTANTS Project,      \* the project rows a book can print
          MaxVersion    \* bound on the number of versions ever published

VARIABLES last,         \* highest version number ever published, 0 for none
          official,     \* the official version, 0 for none
          printed       \* the project list of every published version

bookVars == <<last, official, printed>>

Number == 1..MaxVersion

BookInit ==
    /\ last = 0
    /\ official = 0
    /\ printed = [v \in Number |-> {}]

\* A new version becomes the official one; none was official before.
Publish ==
    /\ official = 0
    /\ last < MaxVersion
    /\ last' = last + 1
    /\ official' = last + 1
    /\ \E list \in (SUBSET Project) \ {{}} :
           printed' = [printed EXCEPT ![last + 1] = list]

\* The official version is deprecated by a cancel or a correction.
Retire ==
    /\ official # 0
    /\ official' = 0
    /\ UNCHANGED <<last, printed>>

BookNext == Publish \/ Retire

BookSpec == BookInit /\ [][BookNext]_bookVars
==============================================================================
