-------------------------- MODULE CredentialCache --------------------------
(***************************************************************************)
(* What auth.Manager promises to whoever asks it for credentials, without  *)
(* locks, gate or provider: an answer is the credential that is current at *)
(* one moment between the question and the answer.  A current credential   *)
(* stays until it is dropped, and whatever was obtained before the drop    *)
(* never becomes current again.  A refusal of a token drops the current    *)
(* credential only if that is the token it carries.                        *)
(***************************************************************************)
EXTENDS Integers

CONSTANTS Callers, Tokens, None

VARIABLES epoch,   \* number of drops so far
          cur,     \* the current credential or None
          ask,     \* ask[g]: the epoch when g asked, -1 if it did not
          answer   \* answer[g]: the credential g was given, or None

vars == <<epoch, cur, ask, answer>>

Creds == [tok : Tokens, born : Nat]

Init ==
  /\ epoch = 0 /\ cur = None
  /\ ask = [g \in Callers |-> -1]
  /\ answer = [g \in Callers |-> None]

Ask(g) ==
  /\ ask[g] = -1
  /\ ask' = [ask EXCEPT ![g] = epoch]
  /\ UNCHANGED <<epoch, cur, answer>>

\* A login makes a credential current only when there is none.
Obtain == IF cur = None THEN cur' \in {[tok |-> t, born |-> epoch] : t \in Tokens}
                        ELSE UNCHANGED cur

Answer(g) ==
  /\ ask[g] # -1 /\ answer[g] = None
  /\ Obtain
  /\ answer' = [answer EXCEPT ![g] = cur']
  /\ UNCHANGED <<epoch, ask>>

\* g is through with the answer, or gets none.
Withdraw(g) ==
  /\ ask[g] # -1
  /\ ask' = [ask EXCEPT ![g] = -1]
  /\ answer' = [answer EXCEPT ![g] = None]
  /\ UNCHANGED <<epoch, cur>>

Dropped == epoch' = epoch + 1 /\ cur' = None

Refuse(g) ==
  /\ answer[g] # None
  /\ IF cur # None /\ cur.tok = answer[g].tok THEN Dropped ELSE UNCHANGED <<epoch, cur>>
  /\ answer' = [answer EXCEPT ![g] = None]
  /\ ask' \in {[ask EXCEPT ![g] = e] : e \in {-1, epoch'}}

Drop == Dropped /\ UNCHANGED <<ask, answer>>

Next ==
  \/ \E g \in Callers : Ask(g) \/ Answer(g) \/ Withdraw(g) \/ Refuse(g)
  \/ Drop

Spec == Init /\ [][Next]_vars
=============================================================================
