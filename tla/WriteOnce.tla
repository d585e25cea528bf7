------------------------------ MODULE WriteOnce ------------------------------
(***************************************************************************)
(* What a file of an Open Artifact store promises when overwriting is not  *)
(* allowed: a register that is written at most once, with racing writers.  *)
(* A writer is told it created the file only if its content is the value; *)
(* a writer is told of a conflict only once there is a value; a writer     *)
(* that is told of a failure may or may not have set it.  A reader gets    *)
(* the value, or learns that there is none, or gets an error.              *)
(***************************************************************************)
CONSTANTS Bodies, Writers, Readers, Absent, Missing, Failed, Waiting

VARIABLES value,   \* the content of the file, or Absent
          offer,   \* offer[w]: the content writer w is uploading
          reply,   \* reply[w]: what writer w knows of its upload
          answer   \* answer[r]: what reader r was last told

woVars == <<value, offer, reply, answer>>

WOInit ==
    /\ value = Absent
    /\ offer \in [Writers -> Bodies]
    /\ reply = [w \in Writers |-> "idle"]
    /\ answer = [r \in Readers |-> Waiting]

Ask(w) ==
    /\ reply[w] \notin {"pending", "taken"}
    /\ \E b \in Bodies : offer' = [offer EXCEPT ![w] = b]
    /\ reply' = [reply EXCEPT ![w] = "pending"]
    /\ UNCHANGED <<value, answer>>

\* The one step that sets the value; the writer may already have given up.
Take(w) ==
    /\ reply[w] = "pending"
    /\ value = Absent
    /\ value' = offer[w]
    /\ \E told \in {"taken", "failed"} : reply' = [reply EXCEPT ![w] = told]
    /\ UNCHANGED <<offer, answer>>

Created(w) ==
    /\ reply[w] = "taken"
    /\ reply' = [reply EXCEPT ![w] = "ok"]
    /\ UNCHANGED <<value, offer, answer>>

Conflict(w) ==
    /\ reply[w] = "pending"
    /\ value # Absent
    /\ reply' = [reply EXCEPT ![w] = "exists"]
    /\ UNCHANGED <<value, offer, answer>>

Fail(w) ==
    /\ reply[w] \in {"pending", "taken"}
    /\ reply' = [reply EXCEPT ![w] = "failed"]
    /\ UNCHANGED <<value, offer, answer>>

Get(r) ==
    /\ answer[r] = Waiting
    /\ \E a \in {Failed, IF value = Absent THEN Missing ELSE value} :
          answer' = [answer EXCEPT ![r] = a]
    /\ UNCHANGED <<value, offer, reply>>

Forget(r) ==
    /\ answer[r] # Waiting
    /\ answer' = [answer EXCEPT ![r] = Waiting]
    /\ UNCHANGED <<value, offer, reply>>

WONext ==
    \/ \E w \in Writers : Ask(w) \/ Take(w) \/ Created(w) \/ Conflict(w) \/ Fail(w)
    \/ \E r \in Readers : Get(r) \/ Forget(r)

WOSpec == WOInit /\ [][WONext]_woVars
=============================================================================
