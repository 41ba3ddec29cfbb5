------------------------------ MODULE WebProofs ------------------------------
(***************************************************************************)
(* Proofs about the client's session, for any accounts and any number of   *)
(* calls: the refresh is shared, and tokens and user belong together; and  *)
(* about its cached queries: each hook of web/services invalidates what it *)
(* changes, KnownGaps apart, and a page shows what its user changed,       *)
(* however requests and mutations overlap.                                 *)
(***************************************************************************)
EXTENDS MCWeb, Integers, TLAPS

Table == [Slots -> Call \cup {Free}]

\* The slots that wait, in a table of calls.
WaitingIn(cs) == {c \in Slots : cs[c] # Free /\ cs[c].step = "waiting"}

\* What is asked about the user within the present session carries its token.
Asks(cs, token) ==
  \A c \in Slots : cs[c].kind \in {"me", "refreshUser"} /\ ~cs[c].late => cs[c].token = token

\* A refresh that began within the present session uses its refresh token.
Renews(r, token) == r # NoRefresh /\ ~r.late => r.of = token

InSession == strayed \/ (Asks(calls, store.access) /\ Renews(refresh, store.refresh))
IInv == TypeOK /\ SharedRefresh /\ AccountsAgree /\ InSession

----------------------------------------------------------------------------
(* Tables of calls *)

\* A free slot is no call.
LEMMA FreeIsNoCall == Free \notin Call /\ Free.kind = "free"
BY DEF Free, Call, Kinds, SignInKinds

\* Both names for the calls that wait.
LEMMA WaitingIsIn == Waiting = WaitingIn(calls)
BY DEF Waiting, Open, WaitingIn

\* The end of a session leaves nothing that is asked within it.
LEMMA OutlivedTable ==
  ASSUME NEW cs \in Table
  PROVE  /\ Outlived(cs) \in Table /\ WaitingIn(Outlived(cs)) = WaitingIn(cs)
         /\ \A token : Asks(Outlived(cs), token)
<1>1. ASSUME NEW c \in Slots, cs[c].kind \in {"me", "refreshUser"}
      PROVE  /\ cs[c] \in Call /\ Outlived(cs)[c] = [cs[c] EXCEPT !.late = TRUE]
             /\ Outlived(cs)[c] \in Call /\ Outlived(cs)[c].step = cs[c].step /\ Outlived(cs)[c].late
  <2>1. cs[c] \in Call
    BY <1>1, FreeIsNoCall DEF Table
  <2>2. Outlived(cs)[c] = [cs[c] EXCEPT !.late = TRUE]
    BY <1>1 DEF Outlived
  <2> QED
    BY <2>1, <2>2 DEF Call
<1>2. ASSUME NEW c \in Slots, cs[c].kind \notin {"me", "refreshUser"}
      PROVE  Outlived(cs)[c] = cs[c]
  BY <1>2 DEF Outlived
<1>3. Outlived(cs) \in Table
  BY <1>1, <1>2 DEF Outlived, Table
<1>4. WaitingIn(Outlived(cs)) = WaitingIn(cs)
  BY <1>1, <1>2, FreeIsNoCall DEF WaitingIn
<1>5. ASSUME NEW token PROVE Asks(Outlived(cs), token)
  BY <1>1, <1>2 DEF Asks
<1> QED
  BY <1>3, <1>4, <1>5

\* A page that is left changes nothing that matters here.
LEMMA UnmountedTable ==
  ASSUME NEW cs \in Table
  PROVE  /\ Unmounted(cs) \in Table /\ WaitingIn(Unmounted(cs)) = WaitingIn(cs)
         /\ \A token : Asks(cs, token) => Asks(Unmounted(cs), token)
<1>1. ASSUME NEW c \in Slots, cs[c].kind \in SignInKinds
      PROVE  /\ cs[c] \in Call /\ Unmounted(cs)[c] \in Call
             /\ Unmounted(cs)[c].step = cs[c].step /\ Unmounted(cs)[c].kind = cs[c].kind
             /\ Unmounted(cs)[c].late = cs[c].late /\ Unmounted(cs)[c].token = cs[c].token
  <2>1. cs[c] \in Call
    BY <1>1, FreeIsNoCall DEF Table, SignInKinds
  <2>2. Unmounted(cs)[c] = [cs[c] EXCEPT !.here = FALSE]
    BY <1>1 DEF Unmounted
  <2> QED
    BY <2>1, <2>2 DEF Call
<1>2. ASSUME NEW c \in Slots, cs[c].kind \notin SignInKinds
      PROVE  Unmounted(cs)[c] = cs[c]
  BY <1>2 DEF Unmounted
<1>3. Unmounted(cs) \in Table
  BY <1>1, <1>2 DEF Unmounted, Table
<1>4. WaitingIn(Unmounted(cs)) = WaitingIn(cs)
  BY <1>1, <1>2, FreeIsNoCall DEF WaitingIn
<1>5. ASSUME NEW token, Asks(cs, token) PROVE Asks(Unmounted(cs), token)
  BY <1>1, <1>2, <1>5 DEF Asks
<1> QED
  BY <1>3, <1>4, <1>5

\* Calls that end.
LEMMA WithoutTable ==
  ASSUME calls \in Table, NEW S \in SUBSET Slots
  PROVE  /\ Without(S) \in Table /\ WaitingIn(Without(S)) = Waiting \ S
         /\ \A token : Asks(calls, token) => Asks(Without(S), token)
<1>1. \A c \in Slots : Without(S)[c] = IF c \in S THEN Free ELSE calls[c]
  BY DEF Without
<1>2. Without(S) \in Table
  BY DEF Without, Table
<1>3. WaitingIn(Without(S)) = Waiting \ S
  BY <1>1 DEF WaitingIn, Waiting, Open
<1>4. ASSUME NEW token, Asks(calls, token) PROVE Asks(Without(S), token)
  BY <1>1, <1>4, FreeIsNoCall DEF Asks
<1> QED
  BY <1>2, <1>3, <1>4

\* A refresh that outlives the session stays one, and renews none.
LEMMA LateRefreshIs ==
  ASSUME NEW r \in [of: Account, late: BOOLEAN]
  PROVE  /\ LateRefresh(r) \in [of: Account, late: BOOLEAN]
         /\ LateRefresh(r) = NoRefresh <=> r = NoRefresh
         /\ \A token : Renews(LateRefresh(r), token)
<1>1. CASE r = NoRefresh
  BY <1>1 DEF LateRefresh, Renews
<1>2. CASE r # NoRefresh
  <2>1. LateRefresh(r) = [r EXCEPT !.late = TRUE]
    BY <1>2 DEF LateRefresh
  <2>2. LateRefresh(r) \in [of: Account, late: BOOLEAN] /\ LateRefresh(r).late = TRUE
    BY <2>1
  <2>3. LateRefresh(r) # NoRefresh
    BY <2>2 DEF NoRefresh
  <2> QED
    BY <1>2, <2>2, <2>3 DEF Renews
<1> QED
  BY <1>1, <1>2

----------------------------------------------------------------------------
(* Steps *)

Refresh == [of: Account, late: BOOLEAN]

\* Nobody is signed in, nothing is asked.
LEMMA InitIInv == Init => IInv
<1> SUFFICES ASSUME Init PROVE IInv
  OBVIOUS
<1>1. TypeOK
  BY DEF Init, TypeOK, clearTokens, NoRefresh, Account
<1>2. Waiting = {}
  BY DEF Init, Waiting, Open
<1>3. Asks(calls, store.access)
  BY FreeIsNoCall DEF Init, Asks
<1>4. refresh = NoRefresh /\ strayed = FALSE /\ store = clearTokens
  BY DEF Init
<1>5. AccountsAgree
  BY <1>4 DEF AccountsAgree, clearTokens
<1> QED
  BY <1>1, <1>2, <1>3, <1>4, <1>5 DEF IInv, SharedRefresh, InSession, Renews

\* What the end of calls, with or without the session, does to the invariant: the
\* refresh that is left must be awaited by the calls that are left.
LEMMA EndedIInv ==
  ASSUME IInv, NEW cs \in SUBSET Slots, NEW cleared \in BOOLEAN, NEW r \in {refresh, NoRefresh},
         Ended(cs, cleared, r), (r # NoRefresh) <=> (Waiting \ cs # {})
  PROVE  IInv'
<1> PICK kinds : kinds = {calls[c].kind : c \in cs}
  OBVIOUS
<1> PICK over \in BOOLEAN : over = (cleared \/ "me" \in kinds \/ "logout" \in kinds)
  OBVIOUS
<1> PICK rest : rest = IF over THEN Outlived(Without(cs)) ELSE Without(cs)
  OBVIOUS
<1>1. /\ store' = IF over THEN clearTokens ELSE store
      /\ screen'.user = IF "me" \in kinds \/ "logout" \in kinds THEN None ELSE screen.user
      /\ screen'.loading \in BOOLEAN
      /\ screen'.route = IF "logout" \in kinds THEN "signin" ELSE screen.route
      /\ screen' = [user |-> screen'.user, loading |-> screen'.loading, route |-> screen'.route]
      /\ calls' = IF "logout" \in kinds THEN Unmounted(rest) ELSE rest
      /\ refresh' = IF over THEN LateRefresh(r) ELSE r
      /\ strayed' = (strayed /\ ~over)
  BY DEF Ended, LoadingAfter, IInv, TypeOK
<1>2. calls \in Table /\ refresh \in Refresh /\ r \in Refresh /\ strayed \in BOOLEAN
  <2>1. TypeOK
    BY DEF IInv
  <2>2. calls \in Table
    BY <2>1 DEF TypeOK, Table
  <2>3. refresh \in Refresh /\ NoRefresh \in Refresh
    BY <2>1 DEF TypeOK, Refresh, NoRefresh, Account
  <2>4. strayed \in BOOLEAN
    BY <2>1 DEF TypeOK
  <2> QED
    BY <2>2, <2>3, <2>4
<1>3. /\ Without(cs) \in Table /\ WaitingIn(Without(cs)) = Waiting \ cs
      /\ \A token : Asks(calls, token) => Asks(Without(cs), token)
  BY <1>2, WithoutTable
<1>4. /\ rest \in Table /\ WaitingIn(rest) = Waiting \ cs
      /\ over => \A token : Asks(rest, token)
      /\ ~over => \A token : Asks(calls, token) => Asks(rest, token)
  <2>1. CASE over
    BY <2>1, <1>3, OutlivedTable
  <2>2. CASE ~over
    BY <2>2, <1>3
  <2> QED
    BY <2>1, <2>2
<1>5. /\ calls' \in Table /\ WaitingIn(calls') = Waiting \ cs
      /\ over => \A token : Asks(calls', token)
      /\ ~over => \A token : Asks(calls, token) => Asks(calls', token)
  <2>1. CASE "logout" \in kinds
    BY <2>1, <1>1, <1>4, UnmountedTable
  <2>2. CASE "logout" \notin kinds
    BY <2>2, <1>1, <1>4
  <2> QED
    BY <2>1, <2>2
<1>6. /\ refresh' \in Refresh /\ (refresh' = NoRefresh <=> r = NoRefresh)
      /\ over => \A token : Renews(refresh', token)
  <2>1. CASE over
    BY <2>1, <1>1, <1>2, LateRefreshIs DEF Refresh
  <2>2. CASE ~over
    BY <2>2, <1>1, <1>2
  <2> QED
    BY <2>1, <2>2
<1>7. TypeOK'
  <2>1. TypeOK
    BY DEF IInv
  <2>2. store' \in [access: Account, refresh: Account, user: Account]
    BY <1>1, <2>1 DEF TypeOK, clearTokens, Account
  <2>3. screen' \in [user: Account, loading: BOOLEAN, route: {"signin", "signup", "app"}]
    <3>1. screen'.user \in Account /\ screen'.route \in {"signin", "signup", "app"}
      BY <1>1, <2>1 DEF TypeOK, Account
    <3> QED
      BY <1>1, <3>1
  <2>4. strayed' \in BOOLEAN
    BY <1>1, <1>2
  <2> QED
    BY <2>2, <2>3, <2>4, <1>5, <1>6 DEF TypeOK, Table, Refresh
<1>8. SharedRefresh'
  <2>1. Waiting' = WaitingIn(calls')
    BY DEF Waiting, Open, WaitingIn
  <2> QED
    BY <2>1, <1>5, <1>6 DEF SharedRefresh
<1>9. AccountsAgree' /\ InSession'
  <2>1. CASE over
    <3>1. store' = clearTokens /\ Asks(calls', store'.access) /\ Renews(refresh', store'.refresh)
      BY <2>1, <1>1, <1>5, <1>6
    <3> QED
      BY <3>1 DEF AccountsAgree, InSession, clearTokens
  <2>2. CASE ~over
    <3>1. /\ store' = store /\ screen'.user = screen.user /\ strayed' = strayed /\ refresh' = r
          /\ Asks(calls, store.access) => Asks(calls', store.access)
      BY <2>2, <1>1, <1>2, <1>5
    <3>2. Renews(refresh, store.refresh) => Renews(r, store.refresh)
      BY DEF Renews
    <3> QED
      BY <3>1, <3>2 DEF IInv, AccountsAgree, InSession
  <2> QED
    BY <2>1, <2>2
<1> QED
  BY <1>7, <1>8, <1>9 DEF IInv

\* A call that does not wait ends.
LEMMA ThrewIInv ==
  ASSUME IInv, NEW c \in Slots, c \notin Waiting, Threw(c)
  PROVE  IInv'
<1>1. (refresh # NoRefresh) <=> (Waiting \ {c} # {})
  BY DEF IInv, SharedRefresh
<1>2. Ended({c}, FALSE, refresh)
  BY DEF Threw
<1> QED
  BY <1>1, <1>2, EndedIInv

\* What holds of the variables.
LEMMA Types ==
  ASSUME IInv
  PROVE  /\ store \in [access: Account, refresh: Account, user: Account]
         /\ screen \in [user: Account, loading: BOOLEAN, route: {"signin", "signup", "app"}]
         /\ calls \in Table /\ refresh \in Refresh /\ strayed \in BOOLEAN
<1>1. TypeOK
  BY DEF IInv
<1> QED
  BY <1>1 DEF TypeOK, Table, Refresh

\* The user is read: under the present session it is the tokens' own.
LEMMA GotUserIInv ==
  ASSUME IInv, NEW c \in Slots, c \notin Waiting, calls[c] # Free,
         calls[c].kind \in {"me", "refreshUser"}, GotUser(c)
  PROVE  IInv'
<1>1. calls \in Table /\ calls[c] \in Call /\ calls[c].token \in Account /\ calls[c].late \in BOOLEAN
  BY Types DEF Table, Call
<1>2. /\ calls' = Without({c}) /\ refresh' = refresh
      /\ store' = [store EXCEPT !.user = calls[c].token]
      /\ screen' = [screen EXCEPT !.user = calls[c].token,
                                  !.loading = screen.loading /\ calls[c].kind # "me"]
      /\ strayed' = (strayed \/ calls[c].late)
  BY DEF GotUser
<1>3. /\ calls' \in Table /\ WaitingIn(calls') = Waiting
      /\ \A token : Asks(calls, token) => Asks(calls', token)
  BY <1>1, <1>2, WithoutTable
<1>4. /\ store'.access = store.access /\ store'.refresh = store.refresh
      /\ store'.user = calls[c].token /\ screen'.user = calls[c].token
      /\ store' \in [access: Account, refresh: Account, user: Account]
      /\ screen' \in [user: Account, loading: BOOLEAN, route: {"signin", "signup", "app"}]
  BY <1>1, <1>2, Types
<1>5. TypeOK'
  <2>1. strayed' \in BOOLEAN
    BY <1>1, <1>2, Types
  <2> QED
    BY <2>1, <1>2, <1>3, <1>4, Types DEF TypeOK, Table, Refresh
<1>6. SharedRefresh'
  <2>1. Waiting' = WaitingIn(calls')
    BY DEF Waiting, Open, WaitingIn
  <2> QED
    BY <2>1, <1>2, <1>3 DEF SharedRefresh, IInv
<1>7. ASSUME ~strayed'
      PROVE  /\ Asks(calls, store.access) /\ Renews(refresh, store.refresh)
             /\ store.access = store.refresh /\ calls[c].token = store.access
  <2>1. ~strayed /\ ~calls[c].late
    BY <1>2, <1>7
  <2>2. Asks(calls, store.access) /\ Renews(refresh, store.refresh) /\ store.access = store.refresh
    BY <2>1 DEF IInv, InSession, AccountsAgree
  <2> QED
    BY <2>1, <2>2 DEF Asks
<1>8. AccountsAgree'
  BY <1>4, <1>7 DEF AccountsAgree
<1>9. InSession'
  BY <1>2, <1>3, <1>4, <1>7 DEF InSession
<1> QED
  BY <1>5, <1>6, <1>8, <1>9 DEF IInv

\* Somebody signs in: whatever was asked before is late.
LEMMA SignedInIInv ==
  ASSUME IInv, NEW c \in Slots, c \notin Waiting, SignedIn(c)
  PROVE  IInv'
<1>1. PICK u \in Users : store' = setTokens(u) /\ screen' = [user |-> u, loading |-> FALSE, route |-> "app"]
  BY DEF SignedIn
<1>2. /\ calls' = Unmounted(Outlived(Without({c}))) /\ refresh' = LateRefresh(refresh)
      /\ strayed' = FALSE
  BY DEF SignedIn
<1>3. Without({c}) \in Table /\ WaitingIn(Without({c})) = Waiting
  BY Types, WithoutTable
<1>4. /\ calls' \in Table /\ WaitingIn(calls') = Waiting
      /\ \A token : Asks(calls', token)
  <2>1. PICK cs : cs = Without({c})
    OBVIOUS
  <2>2. PICK ds : ds = Outlived(cs)
    OBVIOUS
  <2>3. ds \in Table /\ WaitingIn(ds) = Waiting /\ \A token : Asks(ds, token)
    BY <1>3, <2>1, <2>2, OutlivedTable
  <2> QED
    BY <1>2, <2>1, <2>2, <2>3, UnmountedTable
<1>5. /\ refresh' \in Refresh /\ (refresh' = NoRefresh <=> refresh = NoRefresh)
      /\ \A token : Renews(refresh', token)
  BY <1>2, Types, LateRefreshIs DEF Refresh
<1>6. TypeOK'
  BY <1>1, <1>2, <1>4, <1>5 DEF TypeOK, Table, Refresh, setTokens, Account
<1>7. SharedRefresh'
  <2>1. Waiting' = WaitingIn(calls')
    BY DEF Waiting, Open, WaitingIn
  <2> QED
    BY <2>1, <1>4, <1>5 DEF SharedRefresh, IInv
<1>8. AccountsAgree'
  BY <1>1 DEF AccountsAgree, setTokens
<1>9. InSession'
  BY <1>4, <1>5 DEF InSession
<1> QED
  BY <1>6, <1>7, <1>8, <1>9 DEF IInv

\* One slot gets a call that does not wait and that carries the token stored.
LEMMA SlotIInv ==
  ASSUME IInv, NEW c \in Slots, c \notin Waiting, NEW call \in Call,
         call.step # "waiting", call.token = store.access,
         calls' = [calls EXCEPT ![c] = call], UNCHANGED <<store, screen, refresh, strayed>>
  PROVE  IInv'
<1>1. /\ calls' \in Table /\ calls'[c] = call
      /\ \A d \in Slots \ {c} : calls'[d] = calls[d]
  BY Types DEF Table
<1>2. WaitingIn(calls') = Waiting
  BY <1>1, FreeIsNoCall DEF Waiting, Open, WaitingIn
<1>3. Asks(calls, store.access) => Asks(calls', store.access)
  BY <1>1 DEF Asks
<1>4. TypeOK'
  BY <1>1, Types DEF TypeOK, Table, Refresh
<1>5. SharedRefresh'
  <2>1. Waiting' = WaitingIn(calls')
    BY DEF Waiting, Open, WaitingIn
  <2> QED
    BY <2>1, <1>2 DEF SharedRefresh, IInv
<1> QED
  BY <1>3, <1>4, <1>5 DEF IInv, AccountsAgree, InSession

\* A call that goes on within its session.
LEMMA GoOnIInv ==
  ASSUME IInv, NEW c \in Slots, c \notin Waiting, calls[c] # Free, NEW kind \in Kinds,
         NEW step \in {"prompt", "sent"}, GoOn(c, kind, step)
  PROVE  IInv'
<1>1. calls[c] \in Call
  BY Types DEF Table
<1>2. PICK call : call = [calls[c] EXCEPT !.kind = kind, !.step = step, !.token = store.access]
  OBVIOUS
<1>3. call \in Call /\ call.step # "waiting" /\ call.token = store.access
  <2>1. store.access \in Account
    BY Types
  <2> QED
    BY <1>1, <1>2, <2>1 DEF Call, Steps
<1>4. calls' = [calls EXCEPT ![c] = call] /\ UNCHANGED <<store, screen, refresh, strayed>>
  BY <1>2 DEF GoOn
<1> QED
  BY <1>3, <1>4, SlotIInv

\* A call begins.
LEMMA NewCallIInv ==
  ASSUME IInv, NEW c \in Slots, calls[c] = Free, NEW kind \in Kinds,
         NEW step \in {"prompt", "sent"}, calls' = [calls EXCEPT ![c] = NewCall(kind, step)],
         UNCHANGED <<store, screen, refresh, strayed>>
  PROVE  IInv'
<1>1. PICK call : call = NewCall(kind, step)
  OBVIOUS
<1>2. call \in Call /\ call.step # "waiting" /\ call.token = store.access
  <2>1. store.access \in Account
    BY Types
  <2> QED
    BY <1>1, <2>1 DEF NewCall, Call, Steps
<1>3. c \notin Waiting
  BY DEF Waiting, Open
<1> QED
  BY <1>1, <1>2, <1>3, SlotIInv

\* A call ends well.
LEMMA SucceededIInv ==
  ASSUME IInv, NEW c \in Slots, c \notin Waiting, calls[c] # Free, Succeeded(c)
  PROVE  IInv'
<1>1. CASE calls[c].kind \in {"me", "refreshUser"} /\ GotUser(c)
  BY <1>1, GotUserIInv
<1>2. CASE SignedIn(c)
  BY <1>2, SignedInIInv
<1>3. CASE GoOn(c, "login", "sent")
  BY <1>3, GoOnIInv DEF Kinds, SignInKinds
<1>4. CASE GoOn(c, "passkeyFinish", "prompt")
  BY <1>4, GoOnIInv DEF Kinds, SignInKinds
<1>5. CASE Threw(c)
  BY <1>5, ThrewIInv
<1> QED
  BY <1>1, <1>2, <1>3, <1>4, <1>5 DEF Succeeded

\* A step that is not "waiting" is that of a call that does not wait.
LEMMA NotWaiting ==
  ASSUME NEW c \in Slots, calls[c].step # "waiting"
  PROVE  c \notin Waiting
BY DEF Waiting

\* A call is answered.
LEMMA AnsweredIInv ==
  ASSUME IInv, NEW c \in Slots, Answered(c)
  PROVE  IInv'
<1>1. calls[c] # Free /\ c \notin Waiting
  BY NotWaiting DEF Answered
<1> QED
  BY <1>1, SucceededIInv, ThrewIInv DEF Answered

\* A refused call waits for the refresh that runs, or for the one it starts.
LEMMA DeniedIInv ==
  ASSUME IInv, NEW c \in Slots, Denied(c)
  PROVE  IInv'
<1>1. calls[c] # Free /\ c \notin Waiting /\ calls[c] \in Call
  BY NotWaiting, Types DEF Denied, Table
<1>2. CASE refresh = NoRefresh /\ store.refresh = None
  <2>1. Ended({c}, TRUE, NoRefresh)
    BY <1>2 DEF Denied
  <2>2. Waiting \ {c} = {}
    BY <1>2 DEF IInv, SharedRefresh
  <2> QED
    BY <2>1, <2>2, EndedIInv
<1>3. CASE ~(refresh = NoRefresh /\ store.refresh = None)
  <2>1. /\ calls' = [calls EXCEPT ![c].step = "waiting"]
        /\ refresh' = IF refresh = NoRefresh THEN [of |-> store.refresh, late |-> FALSE] ELSE refresh
        /\ UNCHANGED <<store, screen, strayed>>
    BY <1>3 DEF Denied
  <2>2. PICK call : call = [calls[c] EXCEPT !.step = "waiting"]
    OBVIOUS
  <2>3. /\ call \in Call /\ call.step = "waiting" /\ call.kind = calls[c].kind
        /\ call.late = calls[c].late /\ call.token = calls[c].token
    BY <1>1, <2>2 DEF Call, Steps
  <2>4. /\ calls' \in Table /\ calls'[c] = call
        /\ \A d \in Slots \ {c} : calls'[d] = calls[d]
    BY <2>1, <2>2, <2>3, Types DEF Table
  <2>5. refresh' \in Refresh /\ refresh' # NoRefresh
    <3>1. store.refresh \in Account
      BY Types
    <3>2. CASE refresh = NoRefresh
      <4>1. refresh' = [of |-> store.refresh, late |-> FALSE] /\ store.refresh # None
        BY <3>2, <2>1, <1>3
      <4> QED
        BY <3>1, <4>1 DEF Refresh, NoRefresh
    <3>3. CASE refresh # NoRefresh
      BY <3>3, <2>1, Types
    <3> QED
      BY <3>2, <3>3
  <2>6. c \in Waiting'
    BY <2>3, <2>4, FreeIsNoCall DEF Waiting, Open
  <2>7. TypeOK'
    BY <2>1, <2>4, <2>5, Types DEF TypeOK, Table, Refresh
  <2>8. SharedRefresh'
    BY <2>5, <2>6 DEF SharedRefresh
  <2>9. Asks(calls, store.access) => Asks(calls', store.access)
    BY <2>3, <2>4 DEF Asks
  <2>10. Renews(refresh, store.refresh) => Renews(refresh', store.refresh)
    BY <2>1 DEF Renews
  <2> QED
    BY <2>1, <2>7, <2>8, <2>9, <2>10 DEF IInv, AccountsAgree, InSession
<1> QED
  BY <1>2, <1>3

\* The token that is stored is given to all who waited.
LEMMA RefreshedIInv ==
  ASSUME IInv, Refreshed
  PROVE  IInv'
<1>1. /\ store' = [store EXCEPT !.access = refresh.of]
      /\ refresh' = NoRefresh /\ strayed' = (strayed \/ refresh.late) /\ screen' = screen
      /\ calls' = [c \in Slots |-> IF c \in Waiting
                                   THEN [calls[c] EXCEPT !.step = "retrying", !.token = refresh.of]
                                   ELSE calls[c]]
  BY DEF Refreshed
<1>2. refresh.of \in Account /\ refresh.late \in BOOLEAN /\ refresh # NoRefresh
  BY Types DEF Refresh, Refreshed
<1>3. ASSUME NEW c \in Waiting
      PROVE  /\ calls'[c] \in Call /\ calls'[c].step = "retrying" /\ calls'[c].token = refresh.of
  <2>1. calls[c] \in Call /\ c \in Slots
    BY Types DEF Table, Waiting, Open
  <2>2. calls'[c] = [calls[c] EXCEPT !.step = "retrying", !.token = refresh.of]
    BY <1>1, <2>1
  <2> QED
    BY <2>1, <2>2, <1>2 DEF Call, Steps
<1>4. ASSUME NEW c \in Slots \ Waiting PROVE calls'[c] = calls[c]
  BY <1>1
<1>5. calls' \in Table
  <2>1. calls' = [c \in Slots |-> calls'[c]]
    BY <1>1
  <2>2. ASSUME NEW c \in Slots PROVE calls'[c] \in Call \cup {Free}
    BY <1>3, <1>4, Types DEF Table
  <2> QED
    BY <2>1, <2>2 DEF Table
<1>6. TypeOK'
  <2>1. store' \in [access: Account, refresh: Account, user: Account] /\ strayed' \in BOOLEAN
    BY <1>1, <1>2, Types
  <2>2. refresh' \in [of: Account, late: BOOLEAN]
    BY <1>1 DEF NoRefresh, Account
  <2> QED
    BY <1>1, <1>5, <2>1, <2>2, Types DEF TypeOK, Table
<1>7. SharedRefresh'
  <2>1. Waiting' = {}
    BY <1>3, <1>4 DEF Waiting, Open
  <2> QED
    BY <1>1, <2>1 DEF SharedRefresh
<1>8. CASE strayed'
  BY <1>6, <1>7, <1>8 DEF IInv, AccountsAgree, InSession
<1>9. CASE ~strayed'
  <2>1. ~strayed /\ ~refresh.late
    BY <1>1, <1>9
  <2>2. /\ store.access = store.refresh /\ refresh.of = store.refresh
        /\ Asks(calls, store.access) /\ AccountsAgree
    BY <2>1, <1>2 DEF IInv, AccountsAgree, InSession, Renews
  <2>3. store' = store
    BY <1>1, <2>2, Types
  <2>4. Asks(calls', store.access)
    <3>1. ASSUME NEW c \in Slots, calls'[c].kind \in {"me", "refreshUser"}, ~calls'[c].late
          PROVE  calls'[c].token = store.access
      BY <3>1, <2>2, <1>3, <1>4 DEF Asks
    <3> QED
      BY <3>1 DEF Asks
  <2> QED
    BY <1>1, <1>6, <1>7, <2>1, <2>2, <2>3, <2>4 DEF IInv, AccountsAgree, InSession, Renews
<1> QED
  BY <1>8, <1>9

\* The refresh fails: everyone who waits ends.
LEMMA RefreshFailedIInv ==
  ASSUME IInv, RefreshFailed
  PROVE  IInv'
<1>1. Ended(Waiting, TRUE, NoRefresh) /\ Waiting \in SUBSET Slots /\ Waiting \ Waiting = {}
  BY DEF RefreshFailed, Waiting, Open
<1> QED
  BY <1>1, EndedIInv

\* A call is repeated with the new token.
LEMMA RetriedIInv ==
  ASSUME IInv, NEW c \in Slots, Retried(c)
  PROVE  IInv'
<1>1. calls[c] # Free /\ c \notin Waiting
  BY NotWaiting DEF Retried
<1>2. CASE Ended({c}, TRUE, refresh)
  <2>1. (refresh # NoRefresh) <=> (Waiting \ {c} # {})
    BY <1>1 DEF IInv, SharedRefresh
  <2> QED
    BY <1>2, <2>1, EndedIInv
<1> QED
  BY <1>1, <1>2, SucceededIInv, ThrewIInv DEF Retried

\* A prompt of the browser is answered.
LEMMA PromptedIInv ==
  ASSUME IInv, NEW c \in Slots, Prompted(c)
  PROVE  IInv'
<1>1. calls[c] # Free /\ c \notin Waiting
  BY NotWaiting DEF Prompted
<1>2. calls[c].kind \in Kinds
  BY <1>1, Types DEF Table, Call
<1> QED
  BY <1>1, <1>2, GoOnIInv, ThrewIInv DEF Prompted

\* The page is loaded again: only the provider's own call is open.
LEMMA ReloadIInv ==
  ASSUME IInv, Reload
  PROVE  IInv'
<1>1. refresh' = NoRefresh /\ store' = store /\ strayed' = strayed
  BY DEF Reload
<1>2. PICK call : call = NewCall("me", "sent")
  OBVIOUS
<1>3. call \in Call /\ call.step = "sent" /\ call.token = store.access
  <2>1. store.access \in Account
    BY Types
  <2> QED
    BY <1>2, <2>1 DEF NewCall, Call, Steps, Kinds
<1>4. /\ calls' \in [Slots -> {call, Free}]
      /\ screen' \in [user: {None, store.user}, loading: BOOLEAN, route: {"signin", "signup", "app"}]
      /\ screen'.user \in {None, store.user}
  <2>1. PICK route \in {"signin", "signup", "app"} :
          IF store.access = None
          THEN /\ screen' = [user |-> None, loading |-> FALSE, route |-> route]
               /\ calls' = [c \in Slots |-> Free]
          ELSE LET c == CHOOSE d \in Slots : TRUE IN
               /\ screen' = [user |-> store.user, loading |-> TRUE, route |-> route]
               /\ calls' = [d \in Slots |-> IF d = c THEN NewCall("me", "sent") ELSE Free]
    BY DEF Reload
  <2>2. CASE store.access = None
    <3>1. /\ screen' = [user |-> None, loading |-> FALSE, route |-> route]
          /\ calls' = [c \in Slots |-> Free]
      BY <2>1, <2>2
    <3>2. calls' \in [Slots -> {call, Free}]
      BY <3>1
    <3> QED
      BY <3>1, <3>2
  <2>3. CASE store.access # None
    <3>1. PICK c : /\ screen' = [user |-> store.user, loading |-> TRUE, route |-> route]
                   /\ calls' = [d \in Slots |-> IF d = c THEN call ELSE Free]
      BY <2>1, <2>3, <1>2
    <3>2. calls' \in [Slots -> {call, Free}]
      BY <3>1
    <3> QED
      BY <3>1, <3>2
  <2> QED
    BY <2>2, <2>3
<1>5. calls' \in Table
  BY <1>3, <1>4 DEF Table
<1>6. Waiting' = {}
  BY <1>3, <1>4 DEF Waiting, Open
<1>7. Asks(calls', store.access)
  BY <1>3, <1>4, FreeIsNoCall DEF Asks
<1>8. TypeOK'
  <2>1. screen' \in [user: Account, loading: BOOLEAN, route: {"signin", "signup", "app"}]
    BY <1>4, Types DEF Account
  <2> QED
    BY <2>1, <1>1, <1>5, Types DEF TypeOK, Table, NoRefresh, Account
<1>9. SharedRefresh'
  BY <1>1, <1>6 DEF SharedRefresh
<1>10. AccountsAgree'
  BY <1>1, <1>4 DEF IInv, AccountsAgree
<1>11. InSession'
  BY <1>1, <1>7 DEF InSession, Renews
<1> QED
  BY <1>8, <1>9, <1>10, <1>11 DEF IInv

\* The pages come and go.
LEMMA RouteIInv ==
  ASSUME IInv, NEW route \in {"signin", "signup", "app"},
         screen' = [screen EXCEPT !.route = route], calls' = Unmounted(calls),
         UNCHANGED <<store, refresh, strayed>>
  PROVE  IInv'
<1>1. /\ calls' \in Table /\ WaitingIn(calls') = Waiting
      /\ Asks(calls, store.access) => Asks(calls', store.access)
  BY Types, UnmountedTable, WaitingIsIn
<1>2. screen' \in [user: Account, loading: BOOLEAN, route: {"signin", "signup", "app"}]
      /\ screen'.user = screen.user
  BY Types
<1>3. TypeOK'
  BY <1>1, <1>2, Types DEF TypeOK, Table, Refresh
<1>4. SharedRefresh'
  <2>1. Waiting' = WaitingIn(calls')
    BY DEF Waiting, Open, WaitingIn
  <2> QED
    BY <2>1, <1>1 DEF SharedRefresh, IInv
<1> QED
  BY <1>1, <1>2, <1>3, <1>4 DEF IInv, AccountsAgree, InSession

\* Each step keeps the invariant.
LEMMA NextIInv ==
  ASSUME IInv, [Next]_vars
  PROVE  IInv'
<1>1. ASSUME NEW c \in Slots, Settles(c) PROVE IInv'
  BY <1>1, AnsweredIInv, DeniedIInv, RetriedIInv DEF Settles
<1>2. ASSUME NEW c \in Slots, Prompted(c) PROVE IInv'
  BY <1>2, PromptedIInv
<1>3. ASSUME NEW c \in Slots, SignsIn(c) PROVE IInv'
  BY <1>3, NewCallIInv
  DEF SignsIn, SignInPage, SignUpPage, onSubmit, handleGoogleSignIn, handlePasskeySignIn, signUp,
      Press, isNext, Kinds, SignInKinds
<1>4. ASSUME NEW c \in Slots, NEW kind \in {"query", "refreshUser", "logout"}, PageCalls(c, kind)
      PROVE  IInv'
  BY <1>4, NewCallIInv DEF PageCalls, isNext, Kinds
<1>5. CASE Refreshed \/ RefreshFailed
  BY <1>5, RefreshedIInv, RefreshFailedIInv
<1>6. CASE Reload
  BY <1>6, ReloadIInv
<1>7. CASE FollowLink
  BY <1>7, RouteIInv DEF FollowLink
<1>8. CASE GuardRedirects
  BY <1>8, RouteIInv DEF GuardRedirects
<1>9. CASE UNCHANGED vars
  <2>1. store' = store /\ screen' = screen /\ calls' = calls /\ refresh' = refresh /\ strayed' = strayed
    BY <1>9 DEF vars
  <2> QED
    BY <2>1 DEF IInv, TypeOK, SharedRefresh, Waiting, Open, AccountsAgree, InSession
<1> QED
  BY <1>1, <1>2, <1>3, <1>4, <1>5, <1>6, <1>7, <1>8, <1>9 DEF Next

----------------------------------------------------------------------------

\* The invariant of the session holds in every run.
THEOREM SessionInvariant == Spec => []IInv
BY InitIInv, NextIInv, PTL DEF Spec

\* The stored tokens, the calls and the screen have the types of the code's.
THEOREM SessionTypes == Spec => []TypeOK
<1>1. IInv => TypeOK
  BY DEF IInv
<1> QED
  BY <1>1, SessionInvariant, PTL

\* A refresh runs exactly while calls wait for it (refreshAccessToken's promise).
THEOREM RefreshIsShared == Spec => []SharedRefresh
<1>1. IInv => SharedRefresh
  BY DEF IInv
<1> QED
  BY <1>1, SessionInvariant, PTL

\* The tokens, the stored user and the user on the screen are of one account, unless
\* an answer of an earlier session came into this one.
THEOREM OneAccount == Spec => []AccountsAgree
<1>1. IInv => AccountsAgree
  BY DEF IInv
<1> QED
  BY <1>1, SessionInvariant, PTL

\* The same in the composition, whichever part of it moves.
LEMMA SessionStep == IInv /\ [WebNext]_webVars => IInv'
BY NextIInv DEF WebNext, webVars

\* The session keeps its types, its shared refresh and its one account in the whole client.
THEOREM SessionInClient == WebSpec => [](TypeOK /\ SharedRefresh /\ AccountsAgree)
<1>1. WebInit => IInv
  BY InitIInv DEF WebInit
<1>2. IInv => TypeOK /\ SharedRefresh /\ AccountsAgree
  BY DEF IInv
<1> QED
  BY <1>1, <1>2, SessionStep, PTL DEF WebSpec

----------------------------------------------------------------------------
(* The hooks: what they read, change and invalidate *)

\* The keys a hook names, as prefixes.
LEMMA Prefixes ==
  ASSUME NEW a, NEW b, NEW c
  PROVE  /\ Queries!IsPrefix(<<a>>, <<a>>) /\ Queries!IsPrefix(<<a>>, <<a, b>>)
         /\ Queries!IsPrefix(<<a>>, <<a, b, c>>)
         /\ Queries!IsPrefix(<<a, b>>, <<a, b>>) /\ Queries!IsPrefix(<<a, b>>, <<a, b, c>>)
         /\ Queries!IsPrefix(<<a, b, c>>, <<a, b, c>>)
BY DEF Queries!IsPrefix

\* Who reads a fact.
LEMMA Readers ==
  ASSUME NEW q \in Queries!Queries, NEW kind, NEW i, <<kind, i>> \in q.reads
  PROVE  /\ kind \in {"video", "thumbnail"} =>
              \/ q = Queries!useVideos
              \/ i = "x" /\ q \in {Queries!useVideo("x"), Queries!usePublicVideo("x")}
              \/ kind = "video" /\ q \in {Queries!useAnalyticsOverview, Queries!useTopVideos}
              \/ kind = "thumbnail" /\ i = "x" /\ q = Queries!useVideoThumbnails("x")
         /\ kind = "jobs" => i = "x" /\ q = Queries!useVideo("x")
         /\ kind = "preset" => q = Queries!usePresets \/ (i = "x" /\ q = Queries!usePreset("x"))
         /\ kind = "user" => q = Queries!useUsers \/ (i = "x" /\ q = Queries!useUser("x"))
         /\ kind = "session" => q = Queries!useAccountSessions
         /\ kind = "passkey" => q = Queries!usePasskeys
         /\ kind = "webhook" => q = Queries!useWebhooks
         /\ kind = "delivery" => i = "x" /\ q = Queries!useWebhookDeliveries("x")
         /\ kind = "setting" =>
              q = Queries!useSystemSettings \/ (i = "x" /\ q = Queries!useSystemSetting("x"))
         /\ kind = "subtitle" =>
              i = "x" /\ q \in {Queries!useVideoSubtitles("x"), Queries!usePublicSubtitles("x")}
<1>1. CASE q = Queries!useVideos
  BY <1>1 DEF Queries!useVideos, Queries!Facts, Queries!Video
<1>2. CASE q = Queries!usePresets
  BY <1>2 DEF Queries!usePresets, Queries!Facts
<1>3. CASE q = Queries!useUsers
  BY <1>3 DEF Queries!useUsers, Queries!Facts
<1>4. CASE q = Queries!useAccountSessions
  BY <1>4 DEF Queries!useAccountSessions, Queries!Facts
<1>5. CASE q = Queries!usePasskeys
  BY <1>5 DEF Queries!usePasskeys, Queries!Facts
<1>6. CASE q = Queries!useWebhooks
  BY <1>6 DEF Queries!useWebhooks, Queries!Facts
<1>7. CASE q = Queries!useSystemSettings
  BY <1>7 DEF Queries!useSystemSettings, Queries!Facts
<1>8. CASE q = Queries!useAnalyticsOverview
  BY <1>8 DEF Queries!useAnalyticsOverview, Queries!Analytics, Queries!Facts
<1>9. CASE q = Queries!useTopVideos
  BY <1>9 DEF Queries!useTopVideos, Queries!Analytics, Queries!Facts
<1>10. CASE q = Queries!useVideo("x")
  BY <1>10 DEF Queries!useVideo, Queries!About, Queries!Video
<1>11. CASE q = Queries!useVideoThumbnails("x")
  BY <1>11 DEF Queries!useVideoThumbnails, Queries!About
<1>12. CASE q = Queries!usePublicVideo("x")
  BY <1>12 DEF Queries!usePublicVideo, Queries!About, Queries!Video
<1>13. CASE q = Queries!usePreset("x")
  BY <1>13 DEF Queries!usePreset, Queries!About
<1>14. CASE q = Queries!useUser("x")
  BY <1>14 DEF Queries!useUser, Queries!About
<1>15. CASE q = Queries!useWebhookDeliveries("x")
  BY <1>15 DEF Queries!useWebhookDeliveries, Queries!About
<1>16. CASE q = Queries!useSystemSetting("x")
  BY <1>16 DEF Queries!useSystemSetting, Queries!About
<1>17. CASE q = Queries!useVideoSubtitles("x")
  BY <1>17 DEF Queries!useVideoSubtitles, Queries!About
<1>18. CASE q = Queries!usePublicSubtitles("x")
  BY <1>18 DEF Queries!usePublicSubtitles, Queries!About
<1> QED
  BY <1>1, <1>2, <1>3, <1>4, <1>5, <1>6, <1>7, <1>8, <1>9, <1>10, <1>11, <1>12, <1>13, <1>14,
     <1>15, <1>16, <1>17, <1>18 DEF Queries!Queries

\* A fact is a kind and an item.
LEMMA PairsOnly ==
  ASSUME NEW q \in Queries!Queries, NEW f \in q.reads
  PROVE  \E kind, i : f = <<kind, i>>
BY DEF Queries!Queries, Queries!useVideos, Queries!useVideo, Queries!useVideoThumbnails,
    Queries!usePublicVideo, Queries!usePresets,
    Queries!usePreset, Queries!useUsers, Queries!useUser, Queries!useAccountSessions,
    Queries!usePasskeys, Queries!useWebhooks, Queries!useWebhookDeliveries,
    Queries!useSystemSettings, Queries!useSystemSetting, Queries!useVideoSubtitles,
    Queries!usePublicSubtitles, Queries!useAnalyticsOverview, Queries!useTopVideos,
    Queries!Analytics, Queries!About, Queries!Facts, Queries!Video

\* The hook answers for the query, or it is known not to.
Answers(m, q) == Queries!Invalidates(m, q) \/ <<m, q>> \in Queries!KnownGaps
Names(m, p) == p \in m.invalidates

\* A key the hook names is a prefix of the query's.
LEMMA NamedKeyHits ==
  ASSUME NEW m, NEW q, NEW p, Names(m, p), Queries!IsPrefix(p, q.key)
  PROVE  Answers(m, q)
BY DEF Answers, Names, Queries!Invalidates

\* The keys the queries read under.
LEMMA KeysOfQueries ==
  /\ Queries!IsPrefix(<<"videos">>, Queries!useVideos.key)
  /\ Queries!IsPrefix(<<"videos">>, Queries!useVideo("x").key)
  /\ Queries!IsPrefix(<<"videos", "x">>, Queries!useVideo("x").key)
  /\ Queries!IsPrefix(<<"videos">>, Queries!useVideoThumbnails("x").key)
  /\ Queries!IsPrefix(<<"videos", "x">>, Queries!useVideoThumbnails("x").key)
  /\ Queries!IsPrefix(<<"presets">>, Queries!usePresets.key)
  /\ Queries!IsPrefix(<<"presets">>, Queries!usePreset("x").key)
  /\ Queries!IsPrefix(<<"users">>, Queries!useUsers.key)
  /\ Queries!IsPrefix(<<"users">>, Queries!useUser("x").key)
  /\ Queries!IsPrefix(<<"account-sessions">>, Queries!useAccountSessions.key)
  /\ Queries!IsPrefix(<<"passkeys">>, Queries!usePasskeys.key)
  /\ Queries!IsPrefix(<<"webhooks">>, Queries!useWebhooks.key)
  /\ Queries!IsPrefix(<<"webhooks">>, Queries!useWebhookDeliveries("x").key)
  /\ Queries!IsPrefix(<<"settings">>, Queries!useSystemSettings.key)
  /\ Queries!IsPrefix(<<"settings">>, Queries!useSystemSetting("x").key)
  /\ Queries!IsPrefix(<<"video-subtitles", "x">>, Queries!useVideoSubtitles("x").key)
BY Prefixes
DEF Queries!useVideos, Queries!useVideo, Queries!useVideoThumbnails, Queries!usePresets,
    Queries!usePreset, Queries!useUsers, Queries!useUser, Queries!useAccountSessions,
    Queries!usePasskeys, Queries!useWebhooks, Queries!useWebhookDeliveries,
    Queries!useSystemSettings, Queries!useSystemSetting, Queries!useVideoSubtitles

\* No change of a video is told to the analytics.
LEMMA AnalyticsNotTold ==
  ASSUME NEW i \in Queries!Existing
  PROVE  /\ <<Queries!useUploadVideo, Queries!useAnalyticsOverview>> \in Queries!KnownGaps
         /\ <<Queries!useUploadVideo, Queries!useTopVideos>> \in Queries!KnownGaps
         /\ <<Queries!useUpdateVideo(i), Queries!useAnalyticsOverview>> \in Queries!KnownGaps
         /\ <<Queries!useUpdateVideo(i), Queries!useTopVideos>> \in Queries!KnownGaps
         /\ <<Queries!useDeleteVideo(i), Queries!useAnalyticsOverview>> \in Queries!KnownGaps
         /\ <<Queries!useDeleteVideo(i), Queries!useTopVideos>> \in Queries!KnownGaps
         /\ <<Queries!useRetranscodeVideo(i), Queries!useAnalyticsOverview>> \in Queries!KnownGaps
         /\ <<Queries!useRetranscodeVideo(i), Queries!useTopVideos>> \in Queries!KnownGaps
BY SMT DEF Queries!KnownGaps, Queries!Existing

\* Neither of a new transcode nor of a new thumbnail the library is told.
LEMMA LibraryNotTold ==
  ASSUME NEW i \in Queries!Existing
  PROVE  /\ <<Queries!useRetranscodeVideo(i), Queries!useVideos>> \in Queries!KnownGaps
         /\ <<Queries!useSetThumbnail(i), Queries!useVideos>> \in Queries!KnownGaps
         /\ <<Queries!useUploadThumbnail(i), Queries!useVideos>> \in Queries!KnownGaps
BY SMT DEF Queries!KnownGaps, Queries!Existing

\* The public page is told nothing of its video.
LEMMA PublicPageNotTold ==
  ASSUME NEW i \in Queries!Existing
  PROVE  /\ <<Queries!useUpdateVideo("x"), Queries!usePublicVideo("x")>> \in Queries!KnownGaps
         /\ <<Queries!useDeleteVideo("x"), Queries!usePublicVideo("x")>> \in Queries!KnownGaps
         /\ <<Queries!useRetranscodeVideo("x"), Queries!usePublicVideo("x")>> \in Queries!KnownGaps
         /\ <<Queries!useSetThumbnail("x"), Queries!usePublicVideo("x")>> \in Queries!KnownGaps
         /\ <<Queries!useUploadThumbnail("x"), Queries!usePublicVideo("x")>> \in Queries!KnownGaps
BY SMT DEF Queries!KnownGaps, Queries!Existing

\* Nor of its subtitles, and a deletion tells no list of them.
LEMMA SubtitlesNotTold ==
  ASSUME NEW i \in Queries!Existing
  PROVE  /\ <<Queries!useDeleteVideo("x"), Queries!useVideoSubtitles("x")>> \in Queries!KnownGaps
         /\ <<Queries!useDeleteVideo("x"), Queries!usePublicSubtitles("x")>> \in Queries!KnownGaps
BY SMT DEF Queries!KnownGaps, Queries!Existing

\* The public page is told nothing of its subtitles.
LEMMA PublicSubtitlesNotTold ==
  ASSUME NEW i \in Queries!Existing
  PROVE  /\ <<Queries!useAttachSubtitle("x"), Queries!usePublicSubtitles("x")>> \in Queries!KnownGaps
         /\ <<Queries!useUploadSubtitle("x"), Queries!usePublicSubtitles("x")>> \in Queries!KnownGaps
         /\ <<Queries!useDeleteSubtitle("x"), Queries!usePublicSubtitles("x")>> \in Queries!KnownGaps
BY SMT DEF Queries!KnownGaps, Queries!Existing

\* The list of users is not told what its reader changed of the account.
LEMMA UsersNotTold ==
  ASSUME NEW i \in Queries!Existing
  PROVE  /\ <<Queries!useUploadAvatar, Queries!useUsers>> \in Queries!KnownGaps
         /\ <<Queries!useUploadAvatar, Queries!useUser("x")>> \in Queries!KnownGaps
         /\ <<Queries!useDeleteAvatar, Queries!useUsers>> \in Queries!KnownGaps
         /\ <<Queries!useDeleteAvatar, Queries!useUser("x")>> \in Queries!KnownGaps
         /\ <<Queries!useLinkGoogle, Queries!useUsers>> \in Queries!KnownGaps
         /\ <<Queries!useLinkGoogle, Queries!useUser("x")>> \in Queries!KnownGaps
         /\ <<Queries!useUnlinkGoogle, Queries!useUsers>> \in Queries!KnownGaps
         /\ <<Queries!useUnlinkGoogle, Queries!useUser("x")>> \in Queries!KnownGaps
BY SMT DEF Queries!KnownGaps, Queries!Existing

\* A passkey that is registered.
LEMMA PasskeysNotTold ==
  ASSUME NEW i \in Queries!Existing
  PROVE  /\ <<Queries!handleRegisterPasskey, Queries!usePasskeys>> \in Queries!KnownGaps
BY SMT DEF Queries!KnownGaps, Queries!Existing


\* Each hook invalidates every key its change is read under, or the pair is known.
LEMMA HooksInvalidate ==
  ASSUME NEW m \in Queries!Mutations, NEW q \in Queries!Queries, Queries!Writes(m, q)
  PROVE  Answers(m, q)
<1> PICK f : f \in m.writes /\ f \in q.reads
  BY DEF Queries!Writes
<1> PICK kind, i : f = <<kind, i>>
  BY PairsOnly
<1>1. CASE m = Queries!useUploadVideo
  <2>1. kind \in {"video"} /\ i = "new" /\ Names(m, <<"videos">>)
    BY <1>1 DEF Queries!useUploadVideo, Queries!About, Names
  <2> QED
    BY <1>1, <2>1, Readers, KeysOfQueries, NamedKeyHits, AnalyticsNotTold
    DEF Answers, Queries!Existing
<1>2. CASE m = Queries!useCreatePreset
  <2>1. kind \in {"preset"} /\ i = "new" /\ Names(m, <<"presets">>)
    BY <1>2 DEF Queries!useCreatePreset, Queries!About, Names
  <2> QED
    BY <1>2, <2>1, Readers, KeysOfQueries, NamedKeyHits
<1>3. CASE m = Queries!useCreateUser
  <2>1. kind \in {"user"} /\ i = "new" /\ Names(m, <<"users">>)
    BY <1>3 DEF Queries!useCreateUser, Queries!About, Names
  <2> QED
    BY <1>3, <2>1, Readers, KeysOfQueries, NamedKeyHits
<1>4. CASE m = Queries!useUploadAvatar
  <2>1. kind \in {"user"} /\ i = "x"
    BY <1>4 DEF Queries!useUploadAvatar, Queries!About, Names
  <2> QED
    BY <1>4, <2>1, Readers, UsersNotTold DEF Answers, Queries!Existing
<1>5. CASE m = Queries!useDeleteAvatar
  <2>1. kind \in {"user"} /\ i = "x"
    BY <1>5 DEF Queries!useDeleteAvatar, Queries!About, Names
  <2> QED
    BY <1>5, <2>1, Readers, UsersNotTold DEF Answers, Queries!Existing
<1>6. CASE m = Queries!useLinkGoogle
  <2>1. kind \in {"user"} /\ i = "x"
    BY <1>6 DEF Queries!useLinkGoogle, Queries!About, Names
  <2> QED
    BY <1>6, <2>1, Readers, UsersNotTold DEF Answers, Queries!Existing
<1>7. CASE m = Queries!useUnlinkGoogle
  <2>1. kind \in {"user"} /\ i = "x"
    BY <1>7 DEF Queries!useUnlinkGoogle, Queries!About, Names
  <2> QED
    BY <1>7, <2>1, Readers, UsersNotTold DEF Answers, Queries!Existing
<1>8. CASE m = Queries!useCreateAccountSession
  <2>1. kind \in {"session"} /\ i = "new" /\ Names(m, <<"account-sessions">>)
    BY <1>8 DEF Queries!useCreateAccountSession, Queries!About, Names
  <2> QED
    BY <1>8, <2>1, Readers, KeysOfQueries, NamedKeyHits
<1>9. CASE m = Queries!handleRegisterPasskey
  <2>1. kind \in {"passkey"} /\ i = "new"
    BY <1>9 DEF Queries!handleRegisterPasskey, Queries!About, Names
  <2> QED
    BY <1>9, <2>1, Readers, PasskeysNotTold DEF Answers, Queries!Existing
<1>10. CASE m = Queries!useCreateWebhook
  <2>1. kind \in {"webhook"} /\ i = "new" /\ Names(m, <<"webhooks">>)
    BY <1>10 DEF Queries!useCreateWebhook, Queries!About, Names
  <2> QED
    BY <1>10, <2>1, Readers, KeysOfQueries, NamedKeyHits
<1>11. CASE m = Queries!useBulkUpdateSettings
  <2>1. kind \in {"setting"} /\ i = "x" /\ Names(m, <<"settings">>)
    BY <1>11 DEF Queries!useBulkUpdateSettings, Queries!About, Names
  <2> QED
    BY <1>11, <2>1, Readers, KeysOfQueries, NamedKeyHits
<1>12. ASSUME NEW j \in Queries!Existing, m = Queries!useUpdateVideo(j) PROVE Answers(m, q)
  <2>1. kind \in {"video"} /\ i = j /\ Names(m, <<"videos">>) /\ Names(m, <<"videos", i>>)
    BY <1>12 DEF Queries!useUpdateVideo, Queries!About, Names
  <2> QED
    BY <1>12, <2>1, Readers, KeysOfQueries, NamedKeyHits, AnalyticsNotTold, PublicPageNotTold
    DEF Answers
<1>13. ASSUME NEW j \in Queries!Existing, m = Queries!useDeleteVideo(j) PROVE Answers(m, q)
  <2>1. kind \in {"video", "thumbnail", "jobs", "subtitle"} /\ i = j /\ Names(m, <<"videos">>)
    BY <1>13 DEF Queries!useDeleteVideo, Queries!About, Names, Queries!Video
  <2>2. CASE kind = "subtitle"
    BY <1>13, <2>1, <2>2, Readers, SubtitlesNotTold DEF Answers
  <2>3. CASE kind = "jobs"
    BY <2>1, <2>3, Readers, KeysOfQueries, NamedKeyHits
  <2>4. CASE kind \in {"video", "thumbnail"}
    <3>1. CASE q \in {Queries!useAnalyticsOverview, Queries!useTopVideos}
      BY <1>13, <3>1, AnalyticsNotTold DEF Answers
    <3>2. CASE i = "x" /\ q = Queries!usePublicVideo("x")
      BY <1>13, <2>1, <3>2, PublicPageNotTold DEF Answers
    <3>3. CASE q \in {Queries!useVideos, Queries!useVideo("x"), Queries!useVideoThumbnails("x")}
      BY <2>1, <3>3, KeysOfQueries, NamedKeyHits
    <3> QED
      BY <2>4, <3>1, <3>2, <3>3, Readers
  <2> QED
    BY <2>1, <2>2, <2>3, <2>4
<1>14. ASSUME NEW j \in Queries!Existing, m = Queries!useRetranscodeVideo(j) PROVE Answers(m, q)
  <2>1. kind \in {"video", "jobs"} /\ i = j /\ Names(m, <<"videos", i>>)
    BY <1>14 DEF Queries!useRetranscodeVideo, Queries!About, Names
  <2>2. CASE q = Queries!useVideos
    BY <1>14, <2>2, LibraryNotTold DEF Answers
  <2>3. CASE i = "x" /\ q = Queries!usePublicVideo("x")
    BY <1>14, <2>1, <2>3, PublicPageNotTold DEF Answers
  <2>4. CASE i = "x" /\ q \in {Queries!useVideo("x"), Queries!useVideoThumbnails("x")}
    BY <2>1, <2>4, KeysOfQueries, NamedKeyHits
  <2>5. CASE q \in {Queries!useAnalyticsOverview, Queries!useTopVideos}
    BY <1>14, <2>5, AnalyticsNotTold DEF Answers
  <2> QED
    BY <2>1, <2>2, <2>3, <2>4, <2>5, Readers
<1>15. ASSUME NEW j \in Queries!Existing, m = Queries!useSetThumbnail(j) PROVE Answers(m, q)
  <2>1. kind \in {"thumbnail"} /\ i = j /\ Names(m, <<"videos", i>>)
    BY <1>15 DEF Queries!useSetThumbnail, Queries!About, Names
  <2>2. CASE q = Queries!useVideos
    BY <1>15, <2>2, LibraryNotTold DEF Answers
  <2>3. CASE i = "x" /\ q = Queries!usePublicVideo("x")
    BY <1>15, <2>1, <2>3, PublicPageNotTold DEF Answers
  <2>4. CASE i = "x" /\ q \in {Queries!useVideo("x"), Queries!useVideoThumbnails("x")}
    BY <2>1, <2>4, KeysOfQueries, NamedKeyHits
  <2> QED
    BY <2>1, <2>2, <2>3, <2>4, Readers
<1>16. ASSUME NEW j \in Queries!Existing, m = Queries!useUploadThumbnail(j) PROVE Answers(m, q)
  <2>1. kind \in {"thumbnail"} /\ i = j /\ Names(m, <<"videos", i>>)
    BY <1>16 DEF Queries!useUploadThumbnail, Queries!About, Names
  <2>2. CASE q = Queries!useVideos
    BY <1>16, <2>2, LibraryNotTold DEF Answers
  <2>3. CASE i = "x" /\ q = Queries!usePublicVideo("x")
    BY <1>16, <2>1, <2>3, PublicPageNotTold DEF Answers
  <2>4. CASE i = "x" /\ q \in {Queries!useVideo("x"), Queries!useVideoThumbnails("x")}
    BY <2>1, <2>4, KeysOfQueries, NamedKeyHits
  <2> QED
    BY <2>1, <2>2, <2>3, <2>4, Readers
<1>17. ASSUME NEW j \in Queries!Existing, m = Queries!useUpdatePreset(j) PROVE Answers(m, q)
  <2>1. kind \in {"preset"} /\ i = j /\ Names(m, <<"presets">>)
    BY <1>17 DEF Queries!useUpdatePreset, Queries!About, Names
  <2> QED
    BY <1>17, <2>1, Readers, KeysOfQueries, NamedKeyHits
<1>18. ASSUME NEW j \in Queries!Existing, m = Queries!useDeletePreset(j) PROVE Answers(m, q)
  <2>1. kind \in {"preset"} /\ i = j /\ Names(m, <<"presets">>)
    BY <1>18 DEF Queries!useDeletePreset, Queries!About, Names
  <2> QED
    BY <1>18, <2>1, Readers, KeysOfQueries, NamedKeyHits
<1>19. ASSUME NEW j \in Queries!Existing, m = Queries!useUpdateUser(j) PROVE Answers(m, q)
  <2>1. kind \in {"user"} /\ i = j /\ Names(m, <<"users">>)
    BY <1>19 DEF Queries!useUpdateUser, Queries!About, Names
  <2> QED
    BY <1>19, <2>1, Readers, KeysOfQueries, NamedKeyHits
<1>20. ASSUME NEW j \in Queries!Existing, m = Queries!useDeleteUser(j) PROVE Answers(m, q)
  <2>1. kind \in {"user"} /\ i = j /\ Names(m, <<"users">>)
    BY <1>20 DEF Queries!useDeleteUser, Queries!About, Names
  <2> QED
    BY <1>20, <2>1, Readers, KeysOfQueries, NamedKeyHits
<1>21. ASSUME NEW j \in Queries!Existing, m = Queries!useDeleteAccountSession(j) PROVE Answers(m, q)
  <2>1. kind \in {"session"} /\ i = j /\ Names(m, <<"account-sessions">>)
    BY <1>21 DEF Queries!useDeleteAccountSession, Queries!About, Names
  <2> QED
    BY <1>21, <2>1, Readers, KeysOfQueries, NamedKeyHits
<1>22. ASSUME NEW j \in Queries!Existing, m = Queries!useRenamePasskey(j) PROVE Answers(m, q)
  <2>1. kind \in {"passkey"} /\ i = j /\ Names(m, <<"passkeys">>)
    BY <1>22 DEF Queries!useRenamePasskey, Queries!About, Names
  <2> QED
    BY <1>22, <2>1, Readers, KeysOfQueries, NamedKeyHits
<1>23. ASSUME NEW j \in Queries!Existing, m = Queries!useDeletePasskey(j) PROVE Answers(m, q)
  <2>1. kind \in {"passkey"} /\ i = j /\ Names(m, <<"passkeys">>)
    BY <1>23 DEF Queries!useDeletePasskey, Queries!About, Names
  <2> QED
    BY <1>23, <2>1, Readers, KeysOfQueries, NamedKeyHits
<1>24. ASSUME NEW j \in Queries!Existing, m = Queries!useUpdateWebhook(j) PROVE Answers(m, q)
  <2>1. kind \in {"webhook"} /\ i = j /\ Names(m, <<"webhooks">>)
    BY <1>24 DEF Queries!useUpdateWebhook, Queries!About, Names
  <2> QED
    BY <1>24, <2>1, Readers, KeysOfQueries, NamedKeyHits
<1>25. ASSUME NEW j \in Queries!Existing, m = Queries!useDeleteWebhook(j) PROVE Answers(m, q)
  <2>1. kind \in {"webhook", "delivery"} /\ i = j /\ Names(m, <<"webhooks">>)
    BY <1>25 DEF Queries!useDeleteWebhook, Queries!About, Names
  <2> QED
    BY <1>25, <2>1, Readers, KeysOfQueries, NamedKeyHits
<1>26. ASSUME NEW j \in Queries!Existing, m = Queries!useRegenerateWebhookSecret(j) PROVE Answers(m, q)
  <2>1. kind \in {"webhook"} /\ i = j /\ Names(m, <<"webhooks">>)
    BY <1>26 DEF Queries!useRegenerateWebhookSecret, Queries!About, Names
  <2> QED
    BY <1>26, <2>1, Readers, KeysOfQueries, NamedKeyHits
<1>27. ASSUME NEW j \in Queries!Existing, m = Queries!useUpdateSystemSetting(j) PROVE Answers(m, q)
  <2>1. kind \in {"setting"} /\ i = j /\ Names(m, <<"settings">>)
    BY <1>27 DEF Queries!useUpdateSystemSetting, Queries!About, Names
  <2> QED
    BY <1>27, <2>1, Readers, KeysOfQueries, NamedKeyHits
<1>28. ASSUME NEW j \in Queries!Existing, m = Queries!useAttachSubtitle(j) PROVE Answers(m, q)
  <2>1. kind \in {"subtitle"} /\ i = j /\ Names(m, <<"video-subtitles", i>>)
    BY <1>28 DEF Queries!useAttachSubtitle, Queries!About, Names
  <2> QED
    BY <1>28, <2>1, Readers, KeysOfQueries, NamedKeyHits, PublicSubtitlesNotTold DEF Answers
<1>29. ASSUME NEW j \in Queries!Existing, m = Queries!useUploadSubtitle(j) PROVE Answers(m, q)
  <2>1. kind \in {"subtitle"} /\ i = j /\ Names(m, <<"video-subtitles", i>>)
    BY <1>29 DEF Queries!useUploadSubtitle, Queries!About, Names
  <2> QED
    BY <1>29, <2>1, Readers, KeysOfQueries, NamedKeyHits, PublicSubtitlesNotTold DEF Answers
<1>30. ASSUME NEW j \in Queries!Existing, m = Queries!useDeleteSubtitle(j) PROVE Answers(m, q)
  <2>1. kind \in {"subtitle"} /\ i = j /\ Names(m, <<"video-subtitles", i>>)
    BY <1>30 DEF Queries!useDeleteSubtitle, Queries!About, Names
  <2> QED
    BY <1>30, <2>1, Readers, KeysOfQueries, NamedKeyHits, PublicSubtitlesNotTold DEF Answers
<1> QED
  BY <1>1, <1>2, <1>3, <1>4, <1>5, <1>6, <1>7, <1>8, <1>9, <1>10, <1>11, <1>12, <1>13, <1>14,
     <1>15, <1>16, <1>17, <1>18, <1>19, <1>20, <1>21, <1>22, <1>23, <1>24, <1>25, <1>26,
     <1>27, <1>28, <1>29, <1>30 DEF Queries!Mutations

----------------------------------------------------------------------------
(* The life of a cached query *)

Entry == [loaded: BOOLEAN, data: Nat, stale: BOOLEAN, failed: BOOLEAN]
Sent == [step: {"sent"}, failures: Nat]
AnsweredBy(v) == [step: {"answered"}, failures: Nat, data: v .. version]
Calling == [step: {"sent"}, does: effects]
Written == [step: {"written"}, does: effects, at: 0 .. version]
Told == effects \subseteq Queries!Effects /\ \A e \in effects : e.changes => e.hits \/ e.known

\* An answer under way shows what is owed, and so do data that are fresh.
QueryInv ==
  /\ Told /\ version \in Nat /\ owed \in 0 .. version /\ mounted \in BOOLEAN /\ entry \in Entry
  /\ fetch \in {Queries!Idle} \cup Sent \cup AnsweredBy(owed)
  /\ \A s \in Slots : open[s] \in {Queries!Idle} \cup Calling \cup Written
  /\ fetch = Queries!Idle /\ ~entry.stale => entry.loaded /\ entry.data >= owed
  /\ ReadYourWrites

\* The mutations' effects on any query leave it told.
LEMMA EffectsTold ==
  ASSUME NEW q \in Queries!Queries, NEW e \in Queries!EffectsOn(q)
  PROVE  e \in Queries!Effects /\ (e.changes => e.hits \/ e.known)
<1>1. PICK m \in Queries!Mutations : e = Queries!Effect(m, q)
  BY DEF Queries!EffectsOn
<1> PICK changes \in BOOLEAN : changes = (m.writes \cap q.reads # {})
  OBVIOUS
<1> PICK hits \in BOOLEAN : hits = (\E p \in m.invalidates : Queries!IsPrefix(p, q.key))
  OBVIOUS
<1>2. (<<m, q>> \in Queries!KnownGaps) \in BOOLEAN
  OBVIOUS
<1> PICK known \in BOOLEAN : known = (<<m, q>> \in Queries!KnownGaps)
  BY <1>2
<1>3. e = [changes |-> changes, hits |-> hits, known |-> known]
  BY <1>1 DEF Queries!Effect, Queries!Writes, Queries!Invalidates
<1>4. changes => hits \/ known
  BY HooksInvalidate DEF Answers, Queries!Writes, Queries!Invalidates
<1> QED
  BY <1>3, <1>4 DEF Queries!Effects

\* Nothing is owed at first.
LEMMA InitQueryInv == WebInit => QueryInv
<1> SUFFICES ASSUME WebInit PROVE QueryInv
  OBVIOUS
<1>1. Queries!Init
  BY DEF WebInit, QueriesRest
<1>2. Told
  BY <1>1, EffectsTold DEF Queries!Init, Told
<1>3. version = 0 /\ mounted = FALSE /\ fetch = Queries!Idle /\ owed = 0 /\ entry = Queries!NoData
  BY <1>1 DEF Queries!Init
<1>4. entry \in Entry /\ entry.stale
  BY <1>3 DEF Queries!NoData, Entry
<1>5. \A s \in Slots : open[s] = Queries!Idle
  BY <1>1 DEF Queries!Init
<1>6. ReadYourWrites
  BY <1>3 DEF ReadYourWrites, Queries!ReadYourWrites
<1>7. owed \in 0 .. version /\ version \in Nat
  BY <1>3
<1> QED
  BY <1>2, <1>3, <1>4, <1>5, <1>6, <1>7 DEF QueryInv

\* What a mutation knows stays so when the version grows.
LEMMA CallsStay ==
  ASSUME QueryInv, version' \in Nat, version' >= version, effects' = effects, open' = open
  PROVE  \A s \in Slots : open'[s] \in {Queries!Idle} \cup Calling' \cup Written'
BY DEF QueryInv, Calling, Written

\* A component mounts: data that are stale are asked for.
LEMMA MountQueryInv == QueryInv /\ Queries!Mount => QueryInv'
<1> SUFFICES ASSUME QueryInv, Queries!Mount PROVE QueryInv'
  OBVIOUS
<1>1. UNCHANGED <<effects, version, open, owed>> /\ mounted' = TRUE
  BY DEF Queries!Mount
<1>2. CASE entry.stale /\ fetch = Queries!Idle
  <2>1. fetch' = Queries!Request(0) /\ entry' = [entry EXCEPT !.failed = FALSE]
    BY <1>2 DEF Queries!Mount
  <2>2. fetch' \in Sent /\ fetch' # Queries!Idle /\ entry' \in Entry
    BY <2>1 DEF Queries!Request, Queries!Idle, Sent, QueryInv, Entry
  <2> QED
    BY <1>1, <2>2 DEF QueryInv, Told, Calling, Written, ReadYourWrites, Queries!ReadYourWrites
<1>3. CASE ~(entry.stale /\ fetch = Queries!Idle)
  <2>1. fetch' = fetch /\ entry' = entry
    BY <1>3 DEF Queries!Mount
  <2> QED
    BY <1>1, <1>3, <2>1
    DEF QueryInv, Told, Calling, Written, AnsweredBy, ReadYourWrites, Queries!ReadYourWrites
<1> QED
  BY <1>2, <1>3

\* The query is left or grows old.
LEMMA QuietQueryInv ==
  QueryInv /\ (Queries!Unmount \/ Queries!TimePasses \/ UNCHANGED queryVars) => QueryInv'
<1> SUFFICES ASSUME QueryInv, Queries!Unmount \/ Queries!TimePasses \/ UNCHANGED queryVars
             PROVE  QueryInv'
  OBVIOUS
<1>1. /\ UNCHANGED <<effects, version, fetch, open, owed>>
      /\ \/ mounted' = FALSE /\ entry' = entry
         \/ mounted' = mounted /\ (entry' = [entry EXCEPT !.stale = TRUE] \/ entry' = entry)
  BY DEF Queries!Unmount, Queries!TimePasses, queryVars
<1>2. /\ entry' \in Entry /\ entry'.loaded = entry.loaded /\ entry'.data = entry.data
      /\ entry'.failed = entry.failed /\ (entry.stale => entry'.stale)
  BY <1>1 DEF QueryInv, Entry
<1>3. mounted' \in BOOLEAN /\ (mounted' => mounted)
  <2>1. mounted' = FALSE \/ mounted' = mounted
    BY <1>1
  <2>2. mounted \in BOOLEAN
    BY DEF QueryInv
  <2>3. CASE mounted' = FALSE
    BY <2>3
  <2>4. CASE mounted' = mounted
    BY <2>2, <2>4
  <2> QED
    BY <2>1, <2>3, <2>4
<1>4. ReadYourWrites'
  <2>1. entry'.data = entry.data /\ fetch' = fetch /\ owed' = owed
    BY <1>1, <1>2
  <2> QED
    BY <1>2, <1>3, <2>1 DEF QueryInv, Entry, ReadYourWrites, Queries!ReadYourWrites
<1>5. fetch' \in {Queries!Idle} \cup Sent \cup AnsweredBy(owed)' /\ Told'
  BY <1>1 DEF QueryInv, AnsweredBy, Told
<1>6. \A s \in Slots : open'[s] \in {Queries!Idle} \cup Calling' \cup Written'
  BY <1>1, CallsStay DEF QueryInv
<1>7. fetch' = Queries!Idle /\ ~entry'.stale => entry'.loaded /\ entry'.data >= owed'
  BY <1>1, <1>2 DEF QueryInv
<1> QED
  BY <1>1, <1>2, <1>3, <1>4, <1>5, <1>6, <1>7 DEF QueryInv

\* What others write is not owed.
LEMMA OthersQueryInv == QueryInv /\ Queries!OthersWrite => QueryInv'
<1> SUFFICES ASSUME QueryInv, Queries!OthersWrite PROVE QueryInv'
  OBVIOUS
<1>1. UNCHANGED <<effects, mounted, entry, fetch, open, owed>> /\ version' = version + 1
  BY DEF Queries!OthersWrite
<1>2. version' \in Nat /\ version' >= version /\ owed' \in 0 .. version'
  BY <1>1 DEF QueryInv
<1>3. fetch' \in {Queries!Idle} \cup Sent \cup AnsweredBy(owed)'
  BY <1>1, <1>2 DEF QueryInv, AnsweredBy
<1> QED
  BY <1>1, <1>2, <1>3, CallsStay DEF QueryInv, Told, ReadYourWrites, Queries!ReadYourWrites

\* The server answers with what it has now.
LEMMA ServerReadsQueryInv == QueryInv /\ Queries!ServerReads => QueryInv'
<1> SUFFICES ASSUME QueryInv, Queries!ServerReads PROVE QueryInv'
  OBVIOUS
<1>1. /\ UNCHANGED <<effects, version, mounted, entry, open, owed>>
      /\ fetch' = [step |-> "answered", failures |-> fetch.failures, data |-> version]
      /\ fetch.step = "sent"
  BY DEF Queries!ServerReads
<1>2. fetch \in Sent
  BY <1>1 DEF QueryInv, Queries!Idle, AnsweredBy
<1>3. fetch' \in AnsweredBy(owed)' /\ fetch' # Queries!Idle
  BY <1>1, <1>2 DEF QueryInv, AnsweredBy, Sent, Queries!Idle
<1> QED
  BY <1>1, <1>3 DEF QueryInv, Told, Calling, Written, ReadYourWrites, Queries!ReadYourWrites

\* An answer is as good as what is owed.
LEMMA ArrivesQueryInv == QueryInv /\ Queries!Arrives => QueryInv'
<1> SUFFICES ASSUME QueryInv, Queries!Arrives PROVE QueryInv'
  OBVIOUS
<1>1. /\ UNCHANGED <<effects, version, mounted, open, owed>>
      /\ fetch.step = "answered" /\ fetch' = Queries!Idle
      /\ entry' = [loaded |-> TRUE, data |-> fetch.data, stale |-> FALSE, failed |-> FALSE]
  BY DEF Queries!Arrives
<1>2. fetch.data \in owed .. version
  BY <1>1 DEF QueryInv, Queries!Idle, AnsweredBy, Sent
<1>3. entry' \in Entry /\ entry'.loaded /\ entry'.data >= owed
  BY <1>1, <1>2 DEF QueryInv, Entry
<1> QED
  BY <1>1, <1>3 DEF QueryInv, Told, Calling, Written, ReadYourWrites, Queries!ReadYourWrites

\* A request fails, and is repeated or given up.
LEMMA FetchFailsQueryInv == QueryInv /\ Queries!FetchFails => QueryInv'
<1> SUFFICES ASSUME QueryInv, Queries!FetchFails PROVE QueryInv'
  OBVIOUS
<1>1. UNCHANGED <<effects, version, mounted, open, owed>> /\ fetch # Queries!Idle
  BY DEF Queries!FetchFails
<1>2. CASE fetch' = Queries!Request(fetch.failures + 1) /\ entry' = entry
  <2>1. fetch.failures \in Nat
    BY <1>1 DEF QueryInv, Sent, AnsweredBy
  <2>2. fetch' \in Sent /\ fetch' # Queries!Idle
    BY <1>2, <2>1 DEF Queries!Request, Sent, Queries!Idle
  <2> QED
    BY <1>1, <1>2, <2>2
    DEF QueryInv, Told, Calling, Written, ReadYourWrites, Queries!ReadYourWrites
<1>3. CASE fetch' = Queries!Idle /\ entry' = [entry EXCEPT !.failed = TRUE, !.stale = TRUE]
  <2>1. entry' \in Entry /\ entry'.failed /\ entry'.stale
    BY <1>3 DEF QueryInv, Entry
  <2> QED
    BY <1>1, <1>3, <2>1
    DEF QueryInv, Told, Calling, Written, ReadYourWrites, Queries!ReadYourWrites
<1> QED
  BY <1>2, <1>3 DEF Queries!FetchFails

\* A mutation that begins, is lost, or reaches the server.
LEMMA MutationQueryInv ==
  ASSUME QueryInv, NEW s \in Slots,
         Queries!mutate(s) \/ Queries!MutationFails(s) \/ Queries!ServerWrites(s)
  PROVE  QueryInv'
<1>1. UNCHANGED <<effects, mounted, entry, fetch, owed>>
  BY DEF Queries!mutate, Queries!MutationFails, Queries!ServerWrites
<1>2. /\ version' \in Nat /\ version' >= version
      /\ \E call \in {Queries!Idle} \cup Calling \cup Written' :
           \A t \in Slots : open'[t] \in {call, open[t]}
  <2>1. CASE Queries!mutate(s)
    <3>1. PICK does \in effects : open' = [open EXCEPT ![s] = [step |-> "sent", does |-> does]]
      BY <2>1 DEF Queries!mutate
    <3>2. [step |-> "sent", does |-> does] \in Calling
      BY DEF Calling
    <3>3. version' = version
      BY <2>1 DEF Queries!mutate
    <3> QED
      BY <3>1, <3>2, <3>3 DEF QueryInv
  <2>2. CASE Queries!MutationFails(s)
    BY <2>2 DEF Queries!MutationFails, QueryInv
  <2>3. CASE Queries!ServerWrites(s)
    <3>1. open[s] \in Calling
      BY <2>3 DEF Queries!ServerWrites, QueryInv, Queries!Idle, Written
    <3>2. version' \in {version, version + 1}
      BY <2>3 DEF Queries!ServerWrites
    <3>3. open' = [open EXCEPT ![s] = [step |-> "written", does |-> open[s].does, at |-> version']]
      BY <2>3 DEF Queries!ServerWrites
    <3>4. [step |-> "written", does |-> open[s].does, at |-> version'] \in Written'
      BY <1>1, <3>1, <3>2 DEF QueryInv, Calling, Written
    <3> QED
      BY <3>2, <3>3, <3>4 DEF QueryInv
  <2> QED
    BY <2>1, <2>2, <2>3
<1>3. \A t \in Slots : open'[t] \in {Queries!Idle} \cup Calling' \cup Written'
  BY <1>1, <1>2 DEF QueryInv, Calling, Written
<1>4. fetch' \in {Queries!Idle} \cup Sent \cup AnsweredBy(owed)' /\ owed' \in 0 .. version'
  BY <1>1, <1>2 DEF QueryInv, AnsweredBy
<1> QED
  BY <1>1, <1>2, <1>3, <1>4 DEF QueryInv, Told, ReadYourWrites, Queries!ReadYourWrites

\* A mutation that succeeds: what it changed is invalidated, so a query that shows it is
\* asked again, and one that nobody shows is stale.
LEMMA SuccessQueryInv ==
  ASSUME QueryInv, NEW s \in Slots, Queries!onSuccess(s)
  PROVE  QueryInv'
<1> DEFINE does == open[s].does
           raises == does.changes /\ ~does.known /\ ~Queries!RunsOn /\ open[s].at > owed
<1>1. /\ UNCHANGED <<effects, version, mounted>> /\ open[s].step = "written"
      /\ open' = [open EXCEPT ![s] = Queries!Idle]
      /\ entry' = IF does.hits THEN [entry EXCEPT !.stale = TRUE, !.failed = @ /\ ~mounted] ELSE entry
      /\ fetch' = IF does.hits /\ mounted /\ ~Queries!RunsOn THEN Queries!Request(0) ELSE fetch
      /\ owed' = IF raises THEN open[s].at ELSE owed
  BY DEF Queries!onSuccess
<1>2. open[s] \in Written
  BY <1>1 DEF QueryInv, Queries!Idle, Calling
<1>3. does \in effects /\ open[s].at \in 0 .. version
  BY <1>2 DEF Written
<1>4. does.changes => does.hits \/ does.known
  BY <1>3 DEF QueryInv, Told
<1>5. owed' \in 0 .. version'
  BY <1>1, <1>3 DEF QueryInv
<1>6. \A t \in Slots : open'[t] \in {Queries!Idle} \cup Calling' \cup Written'
  BY <1>1 DEF QueryInv, Calling, Written
<1>7. CASE ~does.hits
  <2>1. entry' = entry /\ fetch' = fetch /\ owed' = owed
    BY <1>1, <1>4, <1>7
  <2> QED
    BY <1>1, <1>5, <1>6, <2>1
    DEF QueryInv, Told, AnsweredBy, ReadYourWrites, Queries!ReadYourWrites
<1>8. CASE does.hits
  <2>1. entry' \in Entry /\ entry'.stale
    <3>1. PICK failed \in BOOLEAN : failed = (entry.failed /\ ~mounted)
      BY DEF QueryInv, Entry
    <3>2. entry' = [entry EXCEPT !.stale = TRUE, !.failed = failed]
      BY <1>1, <1>8, <3>1
    <3> QED
      BY <3>2 DEF QueryInv, Entry
  <2>2. CASE mounted /\ ~Queries!RunsOn
    <3>1. fetch' \in Sent /\ fetch' # Queries!Idle
      BY <1>1, <1>8, <2>2 DEF Queries!Request, Sent, Queries!Idle
    <3> QED
      BY <1>1, <1>5, <1>6, <2>1, <3>1 DEF QueryInv, Told, ReadYourWrites, Queries!ReadYourWrites
  <2>3. CASE Queries!RunsOn
    <3>1. fetch' = fetch /\ owed' = owed /\ fetch' # Queries!Idle
      BY <1>1, <2>3 DEF Queries!RunsOn
    <3> QED
      BY <1>1, <1>5, <1>6, <2>1, <3>1
      DEF QueryInv, Told, AnsweredBy, ReadYourWrites, Queries!ReadYourWrites
  <2>4. CASE ~mounted /\ ~Queries!RunsOn
    <3>1. fetch' = Queries!Idle /\ ~mounted'
      BY <1>1, <2>4 DEF Queries!RunsOn
    <3> QED
      BY <1>1, <1>5, <1>6, <2>1, <3>1 DEF QueryInv, Told, ReadYourWrites, Queries!ReadYourWrites
  <2> QED
    BY <2>2, <2>3, <2>4 DEF QueryInv
<1> QED
  BY <1>7, <1>8 DEF QueryInv, Told, Queries!Effects

\* Each step keeps it.
LEMMA WebStepQueryInv == QueryInv /\ [WebNext]_webVars => QueryInv'
<1> SUFFICES ASSUME QueryInv, [WebNext]_webVars PROVE QueryInv'
  OBVIOUS
<1>1. CASE Queries!Next
  BY <1>1, MountQueryInv, QuietQueryInv, OthersQueryInv, ServerReadsQueryInv, ArrivesQueryInv,
     FetchFailsQueryInv, MutationQueryInv, SuccessQueryInv DEF Queries!Next
<1>2. CASE UNCHANGED queryVars
  BY <1>2, QuietQueryInv
<1> QED
  BY <1>1, <1>2 DEF WebNext, webVars

\* A page that shows data shows what its user changed, for every hook and whatever is
\* read, lost or invalidated in whatever order.
THEOREM ChangesAreRead == WebSpec => []ReadYourWrites
<1>1. QueryInv => ReadYourWrites
  BY DEF QueryInv
<1> QED
  BY <1>1, InitQueryInv, WebStepQueryInv, PTL DEF WebSpec

=============================================================================
