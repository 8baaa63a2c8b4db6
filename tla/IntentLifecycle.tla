--------------------------- MODULE IntentLifecycle ---------------------------
(***************************************************************************)
(* What the automation promises of its intents, however many threads, late *)
(* answers and crashes carry them: the user is asked about one at a time,  *)
(* an intent acts once at most, never while it is still being asked about, *)
(* and once it is over nothing brings it back.  AutomationIntents          *)
(* implements this.                                                        *)
(***************************************************************************)
CONSTANTS
    Ids,
    None        \* no intent

VARIABLES
    asked,      \* the intent the user is asked about
    stage,      \* of each intent
    done        \* what the intents did, each a record with the intent that did it

ivars == <<asked, stage, done>>

Stages == {"new", "open", "taken", "over"}

Becomes(i, s) == stage' = [stage EXCEPT ![i] = s]
Ends(i) == Becomes(i, "over")

Conceive(i) == stage[i] = "new" /\ Becomes(i, "open") /\ UNCHANGED <<asked, done>>

Ask(i) ==
    /\ asked = None /\ stage[i] = "open"
    /\ asked' = i /\ UNCHANGED <<stage, done>>

\* The question is over: somebody has taken it upon him to act, or nobody will.
Take(i) == asked = i /\ asked' = None /\ Becomes(i, "taken") /\ UNCHANGED done
Withdraw(i) == asked = i /\ asked' = None /\ Ends(i) /\ UNCHANGED done

InHand(i) == asked # i /\ stage[i] \in {"open", "taken"}
Act(i) ==
    /\ InHand(i) /\ Ends(i)
    /\ \E deed \in done' : deed.by = i /\ done' = done \cup {deed}
    /\ UNCHANGED asked
Refuse(i) == InHand(i) /\ Ends(i) /\ UNCHANGED <<asked, done>>

\* The program dies, and whatever was not over is.
Die ==
    /\ asked' = None
    /\ stage' = [i \in Ids |-> IF stage[i] = "new" THEN "new" ELSE "over"]
    /\ UNCHANGED done

LInit == asked = None /\ stage = [i \in Ids |-> "new"] /\ done = {}

LNext ==
    \/ \E i \in Ids : \/ Conceive(i) \/ Ask(i) \/ Take(i) \/ Withdraw(i)
                      \/ Act(i) \/ Refuse(i)
    \/ Die

LSpec == LInit /\ [][LNext]_ivars

=============================================================================
