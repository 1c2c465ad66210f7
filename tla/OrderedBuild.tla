---------------------------- MODULE OrderedBuild ----------------------------
(***************************************************************************)
(* What a build from scripts promises: each script is run after all the    *)
(* earlier ones are done, and never again once it is done, however often   *)
(* the build is aborted.                                                   *)
(***************************************************************************)
EXTENDS Naturals

CONSTANT Scripts  \* numbered in the order of the book

VARIABLES
  done,   \* the scripts that are done
  doing   \* the script that is being run, or 0

Init == done = {} /\ doing = 0

Start(s) ==
  /\ doing = 0
  /\ s \notin done
  /\ \A r \in Scripts : r < s => r \in done
  /\ doing' = s
  /\ UNCHANGED done

Finish ==
  /\ doing # 0
  /\ done' = done \cup {doing}
  /\ doing' = 0

Abort == doing # 0 /\ doing' = 0 /\ UNCHANGED done

Next == (\E s \in Scripts : Start(s)) \/ Finish \/ Abort

Spec == Init /\ [][Next]_<<done, doing>>
=============================================================================
