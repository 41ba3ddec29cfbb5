-------------------------- MODULE WebhookDelivery --------------------------
(***************************************************************************)
(* Webhooks: the endpoints of internal/handler/webhooks.go and the service *)
(* that sends events to them (internal/service/webhook.service.go).  Fire  *)
(* lists the active webhooks and starts a goroutine for each, which works  *)
(* on the copy of the row it was given.  An event is sent to a webhook     *)
(* once, so a goroutine is named by both.                                  *)
(***************************************************************************)
EXTENDS Naturals, FiniteSets

CONSTANTS
  Hooks,       \* webhooks, all subscribed to the events below
  Events,      \* calls of Fire
  Editors,     \* PUT requests
  MaxSecrets,  \* bound: requests that generate a secret
  MaxFaults    \* bound: database errors, lost answers and crashes

VARIABLES
  hooks,     \* table webhooks
  secrets,   \* requests that generate a secret, so far; the secret is the request's number
  asks,      \* these requests: the webhook, and how far the handler is
  shown,     \* webhook -> the secret its owner was last given (history)
  mixed,     \* webhooks whose last secret was stored before an earlier one was answered,
             \* or was never shown because its answer was lost (history)
  edits,     \* PUT requests: the row each has read
  sending,   \* goroutines: event, webhook -> where deliver is, with its copy and attempt
  rows,      \* table webhook_deliveries: event, webhook -> the attempts recorded
  tried,     \* event, webhook -> attempts posted (history)
  accepted,  \* event, webhook -> attempts answered with 2xx (history)
  faults     \* database errors, lost answers and crashes still to happen

secretVars == <<secrets, asks, shown, mixed>>
adminVars == <<secretVars, edits>>
postVars == <<tried, accepted>>
vars == <<hooks, adminVars, sending, rows, postVars, faults>>

MaxAttempts == 3
NoRow == [state |-> "none", active |-> FALSE, valid |-> FALSE, secret |-> 0]
Idle == [pc |-> "none", valid |-> FALSE, secret |-> 0, attempt |-> 0, success |-> FALSE]
NoEdit == [pc |-> "none"]
NoAsk == [pc |-> "none"]
AskDone == [pc |-> "done"]
Deliveries == Events \X Hooks

Init ==
  /\ hooks = [h \in Hooks |-> NoRow]
  /\ secrets = 0
  /\ asks = [n \in 1 .. MaxSecrets |-> NoAsk]
  /\ shown = [h \in Hooks |-> 0]
  /\ mixed = {}
  /\ edits = [c \in Editors |-> NoEdit]
  /\ sending = [d \in Deliveries |-> Idle]
  /\ rows = [d \in Deliveries |-> {}]
  /\ tried = [d \in Deliveries |-> {}]
  /\ accepted = [d \in Deliveries |-> {}]
  /\ faults = MaxFaults

Live(h) == hooks[h].state = "live"

----------------------------------------------------------------------------
(* The owner's requests *)

\* The requests whose secret is stored for the webhook and not yet answered.
Unanswered(h) == {n \in 1 .. MaxSecrets : asks[n] = [pc |-> "stored", hook |-> h]}

\* The INSERT; valid: a request can be made to the URL.
Create(h) ==
  /\ hooks[h].state = "none" /\ secrets < MaxSecrets
  /\ secrets' = secrets + 1
  /\ hooks' = [hooks EXCEPT ![h] =
       [state |-> "live", active |-> TRUE, valid |-> TRUE, secret |-> secrets']]
  /\ asks' = [asks EXCEPT ![secrets'] = [pc |-> "stored", hook |-> h]]
  /\ UNCHANGED <<shown, mixed, edits, sending, rows, postVars, faults>>

\* The handler finds the row and generates a secret.
RegenerateSecret(h) ==
  /\ Live(h) /\ secrets < MaxSecrets
  /\ secrets' = secrets + 1
  /\ asks' = [asks EXCEPT ![secrets'] = [pc |-> "found", hook |-> h]]
  /\ UNCHANGED <<hooks, shown, mixed, edits, sending, rows, postVars, faults>>

\* The UPDATE; of a row that was deleted since it was found it changes nothing.
UpdateSecret(n) ==
  /\ asks[n].pc = "found"
  /\ asks' = [asks EXCEPT ![n].pc = "stored"]
  /\ LET h == asks[n].hook
     IN  /\ hooks' = IF Live(h) THEN [hooks EXCEPT ![h].secret = n] ELSE hooks
         /\ mixed' = IF Unanswered(h) = {} THEN mixed \ {h} ELSE mixed \cup {h}
  /\ UNCHANGED <<secrets, shown, edits, sending, rows, postVars, faults>>

\* The owner gets the answer to a Create or RegenerateSecret; answers come in any order.
SecretShown(n) ==
  /\ asks[n].pc = "stored"
  /\ asks' = [asks EXCEPT ![n] = AskDone]
  /\ shown' = [shown EXCEPT ![asks[n].hook] = n]
  /\ UNCHANGED <<hooks, secrets, mixed, edits, sending, rows, postVars, faults>>

\* The UPDATE fails, or the answer is lost.
AskFails(n) ==
  /\ asks[n].pc \in {"found", "stored"} /\ faults > 0
  /\ faults' = faults - 1
  /\ asks' = [asks EXCEPT ![n] = AskDone]
  /\ mixed' = IF asks[n].pc = "stored" THEN mixed \cup {asks[n].hook} ELSE mixed
  /\ UNCHANGED <<hooks, secrets, shown, edits, sending, rows, postVars>>

\* Update reads the row, changes the fields the request has, and writes all of them;
\* unlike Create it takes any URL.
UpdateRead(c, h) ==
  /\ edits[c].pc = "none" /\ Live(h)
  /\ \E row \in {[hooks[h] EXCEPT !.active = ~@], [hooks[h] EXCEPT !.valid = ~@]} :
       edits' = [edits EXCEPT ![c] = [pc |-> "read", hook |-> h, row |-> row]]
  /\ UNCHANGED <<hooks, secretVars, sending, rows, postVars, faults>>

\* Mutant of Written: the row is written back as it was read.
WrittenWhole(h, row) == [row EXCEPT !.state = hooks[h].state]

\* The UPDATE names the fields a request may change; the secret is none of them.
Written(h, row) == [hooks[h] EXCEPT !.active = row.active, !.valid = row.valid]

\* No row to update is an error answer.
UpdateWrite(c) ==
  /\ edits[c].pc = "read"
  /\ edits' = [edits EXCEPT ![c] = [pc |-> "done"]]
  /\ LET h == edits[c].hook
     IN  hooks' = IF Live(h) THEN [hooks EXCEPT ![h] = Written(h, edits[c].row)] ELSE hooks
  /\ UNCHANGED <<secretVars, sending, rows, postVars, faults>>

\* Deliveries already started go on; their records are deleted with the webhook.
Delete(h) ==
  /\ Live(h)
  /\ hooks' = [hooks EXCEPT ![h] = [NoRow EXCEPT !.state = "deleted"]]
  /\ rows' = [d \in Deliveries |-> IF d[2] = h THEN {} ELSE rows[d]]
  /\ UNCHANGED <<adminVars, sending, postVars, faults>>

----------------------------------------------------------------------------
(* The service *)

Subscribed == {h \in Hooks : Live(h) /\ hooks[h].active}

\* When the list cannot be read, the event is dropped.
Fire(e) ==
  /\ \A h \in Hooks : sending[<<e, h>>].pc = "none"
  /\ \/ /\ sending' = [d \in Deliveries |->
              IF d[1] = e /\ d[2] \in Subscribed
              THEN [pc |-> "post", valid |-> hooks[d[2]].valid, secret |-> hooks[d[2]].secret,
                    attempt |-> 1, success |-> FALSE]
              ELSE IF d[1] = e THEN [Idle EXCEPT !.pc = "ended"]
              ELSE sending[d]]
        /\ UNCHANGED faults
     \/ /\ faults > 0 /\ faults' = faults - 1
        /\ sending' = [d \in Deliveries |->
              IF d[1] = e THEN [Idle EXCEPT !.pc = "ended"] ELSE sending[d]]
  /\ UNCHANGED <<hooks, adminVars, rows, postVars>>

\* The receiver accepts and answers, answers something else, or the client sees no
\* answer within its 10 seconds, whether the receiver acted on it or not.
Outcomes == {o \in [accepts : BOOLEAN, success : BOOLEAN] : o.success => o.accepts}

\* No request can be made to the copy's URL: that is all, without a record or a retry.
GiveUp(d) ==
  /\ sending[d].pc = "post" /\ ~sending[d].valid
  /\ sending' = [sending EXCEPT ![d].pc = "dropped"]
  /\ UNCHANGED <<hooks, adminVars, rows, postVars, faults>>

\* A request is signed with the copy's secret.
Post(d) ==
  /\ sending[d].pc = "post" /\ sending[d].valid
  /\ tried' = [tried EXCEPT ![d] = @ \cup {sending[d].attempt}]
  /\ \E o \in Outcomes :
       /\ sending' = [sending EXCEPT ![d].pc = "record", ![d].success = o.success]
       /\ accepted' = IF o.accepts THEN [accepted EXCEPT ![d] = @ \cup {sending[d].attempt}]
                      ELSE accepted
  /\ UNCHANGED <<hooks, adminVars, rows, faults>>

\* Mutant of After: the last attempt is the one before the last.
AfterOffByOne(s) ==
  IF s.success \/ s.attempt + 1 >= MaxAttempts THEN [s EXCEPT !.pc = "ended"]
  ELSE [s EXCEPT !.pc = "post", !.attempt = s.attempt + 1]

\* Mutant of After: the attempts are not counted.
AfterUncounted(s) ==
  IF s.success THEN [s EXCEPT !.pc = "ended"] ELSE [s EXCEPT !.pc = "post"]

\* Mutant of After: whatever the answer was, it is sent again.
AfterRepeats(s) ==
  IF s.attempt = MaxAttempts THEN [s EXCEPT !.pc = "ended"]
  ELSE [s EXCEPT !.pc = "post", !.attempt = s.attempt + 1]

\* A success ends it, and so does the third failure; else it sleeps and posts again.
After(s) ==
  IF s.success \/ s.attempt >= MaxAttempts THEN [s EXCEPT !.pc = "ended"]
  ELSE [s EXCEPT !.pc = "post", !.attempt = s.attempt + 1]

\* The record of an attempt refers to the webhook's row; an error is dropped.
Record(d) ==
  /\ sending[d].pc = "record"
  /\ sending' = [sending EXCEPT ![d] = After(sending[d])]
  /\ \/ /\ rows' = IF ~Live(d[2]) THEN rows
                   ELSE [rows EXCEPT ![d] = @ \cup
                          {[attempt |-> sending[d].attempt, success |-> sending[d].success]}]
        /\ UNCHANGED faults
     \/ faults > 0 /\ faults' = faults - 1 /\ UNCHANGED rows
  /\ UNCHANGED <<hooks, adminVars, postVars>>

\* Nothing remembers the deliveries and requests that were under way.
Restart ==
  /\ faults > 0 /\ faults' = faults - 1
  /\ sending' = [d \in Deliveries |->
        IF sending[d].pc \in {"post", "record"} THEN [Idle EXCEPT !.pc = "lost"]
        ELSE sending[d]]
  /\ edits' = [c \in Editors |-> IF edits[c].pc = "read" THEN [pc |-> "done"] ELSE edits[c]]
  /\ asks' = [n \in 1 .. MaxSecrets |->
        IF asks[n].pc \in {"found", "stored"} THEN AskDone ELSE asks[n]]
  /\ mixed' = mixed \cup {h \in Hooks : Unanswered(h) # {}}
  /\ UNCHANGED <<hooks, secrets, shown, rows, postVars>>

----------------------------------------------------------------------------
Deliver(d) == Post(d) \/ GiveUp(d) \/ Record(d)

Next ==
  \/ \E h \in Hooks : Create(h) \/ RegenerateSecret(h) \/ Delete(h)
  \/ \E n \in 1 .. MaxSecrets : UpdateSecret(n) \/ SecretShown(n) \/ AskFails(n)
  \/ \E c \in Editors : UpdateWrite(c) \/ \E h \in Hooks : UpdateRead(c, h)
  \/ \E e \in Events : Fire(e)
  \/ \E d \in Deliveries : Deliver(d)
  \/ Restart

Spec == Init /\ [][Next]_vars

\* A goroutine runs on: the client gives up after its timeout, sleeps end.
FairSpec == Spec /\ \A d \in Deliveries : WF_vars(Deliver(d))

----------------------------------------------------------------------------
Row == [state : {"none", "live", "deleted"}, active : BOOLEAN, valid : BOOLEAN,
        secret : Nat]
Sending == [pc : {"none", "post", "record", "ended", "dropped", "lost"}, valid : BOOLEAN,
            secret : Nat, attempt : 0 .. MaxAttempts, success : BOOLEAN]
Ask == {NoAsk, AskDone} \cup [pc : {"found", "stored"}, hook : Hooks]
Edit == {NoEdit, [pc |-> "done"]} \cup [pc : {"read"}, hook : Hooks, row : Row]

\* Every variable stays in its type; no attempt is a fourth.
TypeOK ==
  /\ hooks \in [Hooks -> Row]
  /\ secrets \in 0 .. MaxSecrets /\ asks \in [1 .. MaxSecrets -> Ask]
  /\ shown \in [Hooks -> Nat] /\ mixed \subseteq Hooks
  /\ edits \in [Editors -> Edit]
  /\ sending \in [Deliveries -> Sending]
  /\ rows \in [Deliveries -> SUBSET [attempt : 1 .. MaxAttempts, success : BOOLEAN]]
  /\ tried \in [Deliveries -> SUBSET (1 .. MaxAttempts)]
  /\ accepted \in [Deliveries -> SUBSET (1 .. MaxAttempts)]
  /\ faults \in Nat

\* Once the secrets stored for a webhook are answered, its events are signed with the one
\* its owner was given last (webhooks.go 125-130, 242-247): a PUT that read the row before
\* a secret was stored does not bring the old one back (webhook_repo.go 84-94), and a
\* secret stored alone and answered puts right what was mixed up before it: by an answer
\* that was lost, or by secrets stored while an earlier one was still to be answered.
ShownSecretIsStored ==
  \A h \in Hooks : Live(h) /\ Unanswered(h) = {} /\ h \notin mixed => hooks[h].secret = shown[h]

\* A webhook whose delivery ended was reached, as far as the service can tell, or was
\* tried three times, and nothing is sent after an attempt that is known to have
\* succeeded (webhook.service.go 76-104).
EndedMeansDeliveredOrExhausted ==
  \A d \in Deliveries : LET s == sending[d] IN
    s.pc = "ended" /\ s.attempt > 0 =>
      /\ tried[d] = 1 .. s.attempt
      /\ ~s.success => s.attempt = MaxAttempts

\* What the log says of a delivery agrees with what the receiver saw: a success was
\* accepted, there is one at most, and no attempt was made after it.
LogAgreesWithReceiver ==
  \A d \in Deliveries : \A r \in rows[d] :
    /\ r.attempt \in tried[d]
    /\ r.success => r.attempt \in accepted[d] /\ \A n \in tried[d] : n <= r.attempt

Running == {d \in Deliveries : sending[d].pc \in {"post", "record"}}

\* No delivery is under way.
Settled == Running = {}

=============================================================================
