----------------------------- MODULE WebSession -----------------------------
(***************************************************************************)
(* The session of the web client in one browser tab: the API client with   *)
(* its shared token refresh (web/lib/api-client.ts), the AuthProvider, the *)
(* AuthGuard and the sign-in and sign-up pages.  A token stands for the    *)
(* account it was issued to; whether it has expired shows in the server's  *)
(* answer.  An answer and the continuation it resumes are one step.        *)
(***************************************************************************)
EXTENDS FiniteSets

CONSTANTS
  Users,  \* accounts
  None,   \* no account: no token, nobody signed in
  Slots   \* bound: calls of apiClient that may be open at once

ASSUME SessionAssumption == None \notin Users

VARIABLES
  store,    \* localStorage: access token, refresh token, user
  screen,   \* the provider's user and isLoading, and the route
  calls,    \* slot -> the call of apiClient in it, or Free
  refresh,  \* the refresh that calls share, or NoRefresh
  strayed   \* history: an answer asked for under an earlier session wrote
            \* over the present one

vars == <<store, screen, calls, refresh, strayed>>

Account == Users \cup {None}
SignInKinds == {"login", "register", "google", "passkeyBegin", "passkeyFinish"}
Kinds == {"me", "refreshUser", "query", "logout"} \cup SignInKinds
Steps == {"prompt", "sent", "waiting", "retrying"}

\* here: the page that made the call is still mounted; late: the session the call
\* began under is over (history).  Whose credentials a sign-in carries shows only
\* when the server accepts them, so SignedIn chooses the account.
Call == [kind: Kinds, token: Account, step: Steps, here: BOOLEAN, late: BOOLEAN]
Free == [kind |-> "free"]
NewCall(kind, step) ==
  [kind |-> kind, token |-> store.access, step |-> step, here |-> TRUE, late |-> FALSE]
NoRefresh == [of |-> None, late |-> FALSE]

\* Mutants: the refresh token stays; the answer is stored instead of its user.
setTokensAccess(u) == [access |-> u, refresh |-> store.refresh, user |-> u]
setTokensAnswer(u) == [access |-> u, refresh |-> u, user |-> [user |-> u]]
setTokens(u) == [access |-> u, refresh |-> u, user |-> u]
clearTokens == [access |-> None, refresh |-> None, user |-> None]

Open == {c \in Slots : calls[c] # Free}
\* Free slots are alike: the next call takes this one.
isNext(c) == calls[c] = Free /\ c = CHOOSE d \in Slots : calls[d] = Free
Waiting == {c \in Open : calls[c].step = "waiting"}

Init ==
  /\ store = clearTokens
  /\ screen = [user |-> None, loading |-> FALSE, route |-> "signin"]
  /\ calls = [c \in Slots |-> Free]
  /\ refresh = NoRefresh
  /\ strayed = FALSE

----------------------------------------------------------------------------
(* What the end of a session, or of a page, means for the calls left open *)

Outlived(cs) ==
  [c \in Slots |-> IF cs[c].kind \in {"me", "refreshUser"} THEN [cs[c] EXCEPT !.late = TRUE] ELSE cs[c]]
Unmounted(cs) ==
  [c \in Slots |-> IF cs[c].kind \in SignInKinds THEN [cs[c] EXCEPT !.here = FALSE] ELSE cs[c]]
LateRefresh(r) == IF r = NoRefresh THEN r ELSE [r EXCEPT !.late = TRUE]
Without(cs) == [c \in Slots |-> IF c \in cs THEN Free ELSE calls[c]]

----------------------------------------------------------------------------
(* AuthProvider *)

\* A page load.  The answers under way are lost with the page that asked.
Reload ==
  /\ refresh' = NoRefresh
  /\ \E route \in {"signin", "signup", "app"} :
       IF store.access = None
       THEN /\ screen' = [user |-> None, loading |-> FALSE, route |-> route]
            /\ calls' = [c \in Slots |-> Free]
       ELSE LET c == CHOOSE d \in Slots : TRUE IN
              /\ screen' = [user |-> store.user, loading |-> TRUE, route |-> route]
              /\ calls' = [d \in Slots |-> IF d = c THEN NewCall("me", "sent") ELSE Free]
  /\ UNCHANGED <<store, strayed>>

\* login, loginWithGoogle and loginWithPasskey once the server has accepted.
SignedIn(c) ==
  /\ \E u \in Users :
       /\ store' = setTokens(u)
       /\ screen' = [user |-> u, loading |-> FALSE, route |-> "app"]
  /\ calls' = Unmounted(Outlived(Without({c})))
  /\ refresh' = LateRefresh(refresh)
  /\ strayed' = FALSE

\* The answer of /auth/me, to the effect of the mount or to refreshUser.
GotUser(c) ==
  /\ store' = [store EXCEPT !.user = calls[c].token]
  /\ screen' = [screen EXCEPT !.user = calls[c].token,
                              !.loading = screen.loading /\ calls[c].kind # "me"]
  /\ calls' = Without({c})
  /\ strayed' = (strayed \/ calls[c].late)
  /\ UNCHANGED refresh

\* Mutant: an effect that failed goes on loading.
LoadingUnlessRead(kinds) == screen.loading
LoadingAfter(kinds) == screen.loading /\ "me" \notin kinds

\* The calls in cs end, r being the refresh left: logout has ended whatever the
\* answer, the mount's effect and a cleared call have failed.
Ended(cs, cleared, r) ==
  LET kinds == {calls[c].kind : c \in cs}
      over == cleared \/ "me" \in kinds \/ "logout" \in kinds
      rest == IF over THEN Outlived(Without(cs)) ELSE Without(cs) IN
  /\ store' = IF over THEN clearTokens ELSE store
  /\ screen' = [user |-> IF "me" \in kinds \/ "logout" \in kinds THEN None ELSE screen.user,
                loading |-> LoadingAfter(kinds),
                route |-> IF "logout" \in kinds THEN "signin" ELSE screen.route]
  /\ calls' = IF "logout" \in kinds THEN Unmounted(rest) ELSE rest
  /\ refresh' = IF over THEN LateRefresh(r) ELSE r
  /\ strayed' = (strayed /\ ~over)

Threw(c) == Ended({c}, FALSE, refresh)

\* The same slot goes on with another request: register signs in, a passkey
\* that was begun is asked for and then finished.
GoOn(c, kind, step) ==
  /\ calls' = [calls EXCEPT ![c] = [@ EXCEPT !.kind = kind, !.step = step,
                                             !.token = store.access]]
  /\ UNCHANGED <<store, screen, refresh, strayed>>

Succeeded(c) ==
  \/ calls[c].kind \in {"me", "refreshUser"} /\ GotUser(c)
  \/ calls[c].kind \in {"login", "google", "passkeyFinish"} /\ SignedIn(c)
  \/ calls[c].kind = "register" /\ GoOn(c, "login", "sent")
  \/ calls[c].kind = "passkeyBegin" /\ GoOn(c, "passkeyFinish", "prompt")
  \/ calls[c].kind \in {"logout", "query"} /\ Threw(c)

----------------------------------------------------------------------------
(* apiClient *)

NeedsToken(c) == calls[c].kind \in {"me", "refreshUser", "query", "logout"}

\* The first answer, unless it is 401 to a call that carried a token.
Answered(c) ==
  /\ calls[c] # Free /\ calls[c].step = "sent"
  /\ \/ (NeedsToken(c) => calls[c].token # None) /\ Succeeded(c)
     \/ Threw(c)

\* 401 to a call that carried a token: it starts the refresh or joins it.
Denied(c) ==
  /\ calls[c] # Free /\ calls[c].step = "sent" /\ calls[c].token # None
  /\ IF refresh = NoRefresh /\ store.refresh = None
     THEN Ended({c}, TRUE, NoRefresh)
     ELSE /\ calls' = [calls EXCEPT ![c].step = "waiting"]
          /\ refresh' = IF refresh = NoRefresh
                        THEN [of |-> store.refresh, late |-> FALSE] ELSE refresh
          /\ UNCHANGED <<store, screen, strayed>>

\* Mutant: only the call that started it goes on.
RefreshedForOne ==
  /\ refresh # NoRefresh
  /\ store' = [store EXCEPT !.access = refresh.of]
  /\ \E c \in Waiting : calls' = [calls EXCEPT ![c] = [@ EXCEPT !.step = "retrying", !.token = refresh.of]]
  /\ refresh' = NoRefresh
  /\ strayed' = (strayed \/ refresh.late)
  /\ UNCHANGED screen

\* The refresh succeeds: those who waited try again with the token it stored.
Refreshed ==
  /\ refresh # NoRefresh
  /\ store' = [store EXCEPT !.access = refresh.of]
  /\ calls' = [c \in Slots |-> IF c \in Waiting
                               THEN [calls[c] EXCEPT !.step = "retrying", !.token = refresh.of]
                               ELSE calls[c]]
  /\ refresh' = NoRefresh
  /\ strayed' = (strayed \/ refresh.late)
  /\ UNCHANGED screen

\* Mutant: those who wait are not told.
RefreshFailedSilently ==
  /\ refresh # NoRefresh
  /\ Ended({}, TRUE, NoRefresh)

RefreshFailed ==
  /\ refresh # NoRefresh
  /\ Ended(Waiting, TRUE, NoRefresh)

\* The second answer: any failure but a lost connection removes the tokens.
Retried(c) ==
  /\ calls[c] # Free /\ calls[c].step = "retrying"
  /\ \/ Succeeded(c)
     \/ Ended({c}, TRUE, refresh)
     \/ Threw(c)

----------------------------------------------------------------------------
(* The pages *)

\* One button per way to sign in, disabled while its call is under way.
Button(kind) ==
  IF kind \in {"login", "register"} THEN "form"
  ELSE IF kind = "google" THEN "google" ELSE "passkey"
Disabled(button) ==
  \E c \in Open : calls[c].here /\ calls[c].kind \in SignInKinds /\ Button(calls[c].kind) = button

Press(c, kind, step) ==
  /\ isNext(c) /\ ~Disabled(Button(kind))
  /\ calls' = [calls EXCEPT ![c] = NewCall(kind, step)]
  /\ UNCHANGED <<store, screen, refresh, strayed>>

onSubmit(c) == Press(c, "login", "sent")
handleGoogleSignIn(c) == Press(c, "google", "prompt")
handlePasskeySignIn(c) == Press(c, "passkeyBegin", "sent")
signUp(c) == Press(c, "register", "sent")

SignInPage(c) ==
  screen.route = "signin" /\ (onSubmit(c) \/ handleGoogleSignIn(c) \/ handlePasskeySignIn(c))
SignUpPage(c) == screen.route = "signup" /\ signUp(c)

\* Google's window and the authenticator: the user agrees or closes them.
Prompted(c) ==
  /\ calls[c] # Free /\ calls[c].step = "prompt"
  /\ \/ GoOn(c, calls[c].kind, "sent")
     \/ Threw(c)

\* The links between the two pages.
FollowLink ==
  /\ screen.route \in {"signin", "signup"}
  /\ screen' = [screen EXCEPT !.route = IF screen.route = "signin" THEN "signup" ELSE "signin"]
  /\ calls' = Unmounted(calls)
  /\ UNCHANGED <<store, refresh, strayed>>

Shown == screen.route = "app" /\ ~screen.loading /\ screen.user # None

GuardRedirects ==
  /\ screen.route = "app" /\ ~screen.loading /\ screen.user = None
  /\ screen' = [screen EXCEPT !.route = "signin"]
  /\ calls' = Unmounted(calls)
  /\ UNCHANGED <<store, refresh, strayed>>

\* A page behind the guard asks for its data or for the user again, or the
\* user signs out.
PageCalls(c, kind) ==
  /\ Shown /\ isNext(c)
  /\ calls' = [calls EXCEPT ![c] = NewCall(kind, "sent")]
  /\ UNCHANGED <<store, screen, refresh, strayed>>

----------------------------------------------------------------------------
Settles(c) == Answered(c) \/ Denied(c) \/ Retried(c)
SignsIn(c) == SignInPage(c) \/ SignUpPage(c)

Next ==
  \/ \E c \in Slots : Settles(c) \/ Prompted(c) \/ SignsIn(c)
  \/ \E c \in Slots, kind \in {"query", "refreshUser", "logout"} : PageCalls(c, kind)
  \/ Refreshed \/ RefreshFailed
  \/ Reload \/ FollowLink \/ GuardRedirects

\* Every request is answered or its connection lost in the end, the refresh
\* too, and React runs the guard's effect.
Fairness ==
  /\ \A c \in Slots : WF_vars(Settles(c))
  /\ WF_vars(Refreshed \/ RefreshFailed)
  /\ WF_vars(GuardRedirects)

Spec == Init /\ [][Next]_vars /\ Fairness

----------------------------------------------------------------------------
(* Properties *)

TypeOK ==
  /\ store \in [access: Account, refresh: Account, user: Account]
  /\ screen \in [user: Account, loading: BOOLEAN, route: {"signin", "signup", "app"}]
  /\ calls \in [Slots -> Call \cup {Free}]
  /\ refresh \in [of: Account, late: BOOLEAN]
  /\ strayed \in BOOLEAN

\* Calls wait exactly while the refresh they share is under way: none is left
\* waiting for a refresh that has ended, and no refresh runs that nobody awaits
\* (isRefreshing and refreshPromise).
SharedRefresh == (refresh # NoRefresh) <=> (Waiting # {})

\* Unless an answer strayed into a session it was not asked for, the tokens and
\* the user stored are those of one account, and it is the one on the screen.
AccountsAgree ==
  strayed \/ /\ store.access = store.refresh /\ store.user = store.access
             /\ screen.user # None /\ store.access # None => screen.user = store.access

\* A call that waits for the refresh goes on, with a new token or without one.
WaitersResume == \A c \in Slots : c \in Waiting ~> c \notin Waiting

\* If the user stops reloading the page, the provider stops loading, so the guard
\* shows the page or leaves it.
LoadingEnds == <>[][~Reload]_vars => []<>(~screen.loading)

=============================================================================
