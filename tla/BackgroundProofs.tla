---------------------------- MODULE BackgroundProofs ----------------------------
(***************************************************************************)
(* Proofs about what runs in the server beside the worker pool.  First the *)
(* rate limiter, for any clients, window, limits and settings: the         *)
(* window's bound does not depend on when the cleanup runs.  Then the      *)
(* composition the runs check: each part of it is a run of its component,  *)
(* so that what is proved of the component holds there.  Then the          *)
(* deliveries of webhooks, and last the reader of ffmpeg's output: what it *)
(* has seen begins the output and ends where a line does, so that its      *)
(* lines are the first of the output's.                                    *)
(***************************************************************************)
EXTENDS MCBackground, FiniteSetTheorems, SequenceTheorems, WellFoundedInduction, TLAPS

\* Requests are logged in the order of time.
LogInOrder(ip) ==
  /\ \A i \in 1 .. Len(log[ip]) : log[ip][i].at <= now
  /\ \A i, j \in 1 .. Len(log[ip]) : i <= j => log[ip][i].at <= log[ip][j].at

\* A client's count says how many of its last requests came without a window's pause;
\* without an entry, the last one is longer ago than a window.
CountExplained(s, v, t) ==
  IF v.count = 0 THEN \A k \in 1 .. Len(s) : s[k].at + Window < t
  ELSE /\ v.count <= Len(s)
       /\ v.lastSeen = s[Len(s)].at
       /\ \A k \in 1 .. (Len(s) - v.count) :
            s[k].at + Window < s[Len(s) - v.count + 1].at

CountMeaning(ip) == CountExplained(log[ip], visitors[ip], now)

LInv == TypeOK /\ \A ip \in Ips : LogInOrder(ip) /\ CountMeaning(ip)

\* The invariant holds at the start.
LEMMA InitLInv == Init => LInv
BY LimiterAssumption
DEF Init, LInv, TypeOK, LogInOrder, CountMeaning, CountExplained, NoVisitor, Entry

\* The types the arithmetic below needs.
LEMMA LogTypes ==
  ASSUME TypeOK, NEW ip \in Ips
  PROVE  /\ log[ip] \in Seq(Entry) /\ Len(log[ip]) \in Nat
         /\ \A k \in 1 .. Len(log[ip]) : log[ip][k] \in Entry /\ log[ip][k].at \in Nat
         /\ visitors[ip].count \in Nat /\ visitors[ip].lastSeen \in Nat
         /\ now \in Nat /\ Window \in Nat /\ limit \in Nat \ {0}
<1>1. log[ip] \in Seq(Entry)
  BY DEF TypeOK
<1>2. \A k \in 1 .. Len(log[ip]) : log[ip][k] \in Entry
  BY <1>1
<1>3. \A e \in Entry : e.at \in Nat
  BY DEF Entry
<1> QED
  BY <1>1, <1>2, <1>3, LimiterAssumption DEF TypeOK

\* An old entry means that all of the client's requests are old.
LEMMA ExpiredMeaning ==
  ASSUME LInv, NEW ip \in Ips, Expired(ip), visitors[ip].count # 0
  PROVE  \A k \in 1 .. Len(log[ip]) : log[ip][k].at + Window < now
<1>1. PICK n, s : n = Len(log[ip]) /\ s = log[ip]
  OBVIOUS
<1>2. /\ n \in Nat /\ n >= 1 /\ \A k \in 1 .. n : s[k].at \in Nat
      /\ now \in Nat /\ Window \in Nat
  BY <1>1, LogTypes DEF LInv, CountMeaning, CountExplained
<1>3. visitors[ip].lastSeen = s[n].at /\ \A k \in 1 .. n : s[k].at <= s[n].at /\ s[k].at <= now
  BY <1>1, <1>2 DEF LInv, CountMeaning, CountExplained, LogInOrder
<1>4. now - s[n].at > Window
  BY <1>3 DEF Expired
<1>5. ASSUME NEW k \in 1 .. n PROVE s[k].at + Window < now
  <2>1. s[k].at \in Nat /\ s[n].at \in Nat /\ s[k].at <= s[n].at
    BY <1>2, <1>3
  <2> QED
    BY <2>1, <1>2, <1>4
<1> QED
  BY <1>1, <1>5

\* What a request appends to the log of its client.
LEMMA LogAfter ==
  ASSUME TypeOK, NEW ip \in Ips, Request(ip), NEW n, n = Len(log[ip])
  PROVE  /\ log' \in [Ips -> Seq(Entry)]
         /\ Len(log'[ip]) = n + 1
         /\ log'[ip][n + 1] = [at |-> now, ok |-> Admits(CountAfter(ip)), limit |-> limit]
         /\ \A k \in 1 .. n : log'[ip][k] = log[ip][k]
         /\ \A x \in Ips : x # ip => log'[x] = log[x]
<1>1. [at |-> now, ok |-> Admits(CountAfter(ip)), limit |-> limit] \in Entry
  BY DEF TypeOK, Entry, Admits
<1>2. PICK e \in Entry : e = [at |-> now, ok |-> Admits(CountAfter(ip)), limit |-> limit]
  BY <1>1
<1>3. log' = [log EXCEPT ![ip] = Append(log[ip], e)]
  BY <1>2 DEF Request
<1>4. log \in [Ips -> Seq(Entry)]
  BY DEF TypeOK
<1>5. PICK s \in Seq(Entry) : s = log[ip]
  BY <1>4
<1>6. /\ Append(s, e) \in Seq(Entry) /\ Len(Append(s, e)) = Len(s) + 1
      /\ Append(s, e)[Len(s) + 1] = e
      /\ \A k \in 1 .. Len(s) : Append(s, e)[k] = s[k]
  OBVIOUS
<1> QED
  BY <1>2, <1>3, <1>4, <1>5, <1>6

\* Indices of the last m + 1 of n + 1 requests.
LEMMA CountArithmetic ==
  ASSUME NEW n \in Nat, NEW m \in Nat, m <= n, m # 0
  PROVE  /\ m + 1 \in 1 .. n + 1 /\ m + 1 # 1
         /\ n + 1 - (m + 1) = n - m /\ n + 2 - (m + 1) = n - m + 1
OBVIOUS

\* The count a request leaves is right.
LEMMA CountRight ==
  ASSUME LInv, NEW ip \in Ips, NEW n, n = Len(log[ip]), NEW c, c = CountAfter(ip)
  PROVE  /\ c \in 1 .. n + 1
         /\ \A k \in 1 .. (n + 1 - c) :
              log[ip][k].at + Window < IF c = 1 THEN now ELSE log[ip][n + 2 - c].at
<1>1. /\ n \in Nat /\ visitors[ip].count \in Nat /\ CountMeaning(ip)
      /\ \A k \in 1 .. n : log[ip][k].at \in Nat
  BY LogTypes DEF LInv
<1>2. CASE visitors[ip].count = 0
  BY <1>1, <1>2 DEF CountAfter, CountMeaning, CountExplained
<1>3. CASE visitors[ip].count # 0 /\ Expired(ip)
  BY <1>1, <1>3, ExpiredMeaning DEF CountAfter
<1>4. CASE visitors[ip].count # 0 /\ ~Expired(ip)
  <2>1. PICK m : m = visitors[ip].count
    OBVIOUS
  <2>2. /\ m <= n
        /\ \A k \in 1 .. (n - m) : log[ip][k].at + Window < log[ip][n - m + 1].at
    BY <1>1, <1>4, <2>1 DEF CountMeaning, CountExplained
  <2>3. m \in Nat /\ m # 0 /\ c = m + 1
    BY <1>1, <1>4, <2>1 DEF CountAfter
  <2>4. /\ m + 1 \in 1 .. n + 1 /\ m + 1 # 1
        /\ n + 1 - (m + 1) = n - m /\ n + 2 - (m + 1) = n - m + 1
    BY <1>1, <2>2, <2>3, CountArithmetic
  <2> QED
    BY <2>2, <2>3, <2>4
<1> QED
  BY <1>2, <1>3, <1>4

\* A request keeps the invariant.
LEMMA RequestLInv ==
  ASSUME LInv, NEW ip \in Ips, Request(ip)
  PROVE  LInv'
<1>0. PICK n, c : n = Len(log[ip]) /\ c = CountAfter(ip)
  OBVIOUS
<1>1. /\ log' \in [Ips -> Seq(Entry)]
      /\ Len(log'[ip]) = n + 1 /\ log'[ip][n + 1].at = now
      /\ \A k \in 1 .. n : log'[ip][k] = log[ip][k]
      /\ \A x \in Ips : x # ip => log'[x] = log[x]
  <2>1. TypeOK
    BY DEF LInv
  <2>2. log'[ip][n + 1] = [at |-> now, ok |-> Admits(CountAfter(ip)), limit |-> limit]
    BY <2>1, <1>0, LogAfter
  <2>3. log'[ip][n + 1].at = now
    BY <2>2
  <2> QED
    BY <2>1, <2>3, <1>0, LogAfter
<1>2. n \in Nat /\ now \in Nat /\ c \in 1 .. n + 1
  BY <1>0, LogTypes, CountRight DEF LInv
<1>3. /\ visitors' \in [Ips -> [count : Nat, lastSeen : Nat]]
      /\ visitors'[ip].count = c /\ visitors'[ip].lastSeen = now
      /\ \A x \in Ips : x # ip => visitors'[x] = visitors[x]
  BY <1>0, <1>2 DEF LInv, TypeOK, Request
<1>4. UNCHANGED <<now, limit, watchVars>>
  BY DEF Request
<1>5. TypeOK'
  BY <1>1, <1>3, <1>4 DEF LInv, TypeOK, watchVars
<1>6. LogInOrder(ip)'
  <2>1. LogInOrder(ip) /\ \A k \in 1 .. n : log[ip][k].at \in Nat
    BY <1>0, LogTypes DEF LInv
  <2>2. \A k \in 1 .. n : log'[ip][k].at = log[ip][k].at /\ log[ip][k].at <= now
    BY <1>0, <1>1, <2>1 DEF LogInOrder
  <2>3. ASSUME NEW i \in 1 .. n + 1 PROVE log'[ip][i].at <= now
    BY <1>1, <1>2, <2>1, <2>2
  <2>4. ASSUME NEW i \in 1 .. n + 1, NEW j \in 1 .. n + 1, i <= j
        PROVE  log'[ip][i].at <= log'[ip][j].at
    <3>1. CASE j = n + 1
      BY <3>1, <1>1, <2>3
    <3>2. CASE j # n + 1
      <4>1. i \in 1 .. n /\ j \in 1 .. n
        BY <3>2, <2>4, <1>2
      <4>2. log[ip][i].at <= log[ip][j].at
        BY <4>1, <2>1, <2>4, <1>0 DEF LogInOrder
      <4> QED
        BY <4>1, <4>2, <2>2
    <3> QED
      BY <3>1, <3>2
  <2> QED
    BY <1>1, <1>4, <2>3, <2>4 DEF LogInOrder
<1>7. CountMeaning(ip)'
  <2>1. \A k \in 1 .. (n + 1 - c) :
          log[ip][k].at + Window < IF c = 1 THEN now ELSE log[ip][n + 2 - c].at
    BY <1>0, CountRight
  <2>2. log'[ip][n + 1 - c + 1].at = IF c = 1 THEN now ELSE log[ip][n + 2 - c].at
    BY <1>1, <1>2
  <2>3. \A k \in 1 .. (n + 1 - c) : log'[ip][k] = log[ip][k]
    BY <1>1, <1>2
  <2>4. \A k \in 1 .. (n + 1 - c) : log'[ip][k].at + Window < log'[ip][n + 1 - c + 1].at
    BY <2>1, <2>2, <2>3
  <2>5. c # 0 /\ c <= n + 1
    BY <1>2
  <2>6. PICK s, v, t : s = log'[ip] /\ v = visitors'[ip] /\ t = now'
    OBVIOUS
  <2>7. /\ v.count = c /\ v.count # 0 /\ Len(s) = n + 1 /\ v.lastSeen = s[n + 1].at
        /\ \A k \in 1 .. (n + 1 - c) : s[k].at + Window < s[n + 1 - c + 1].at
    BY <1>1, <1>2, <1>3, <2>4, <2>5, <2>6
  <2>8. CountExplained(s, v, t)
    BY <1>2, <2>5, <2>7 DEF CountExplained
  <2> QED
    BY <2>6, <2>8 DEF CountMeaning
<1>8. ASSUME NEW x \in Ips, x # ip PROVE LogInOrder(x)' /\ CountMeaning(x)'
  BY <1>1, <1>3, <1>4, <1>8 DEF LInv, LogInOrder, CountMeaning, CountExplained
<1> QED
  BY <1>5, <1>6, <1>7, <1>8 DEF LInv

\* Forgetting an old entry loses nothing.
LEMMA CleanupLInv == ASSUME LInv, Cleanup PROVE LInv'
<1>1. UNCHANGED <<now, limit, log, watchVars>>
  BY DEF Cleanup
<1>2. \A ip \in Ips : visitors'[ip] = IF Expired(ip) THEN NoVisitor ELSE visitors[ip]
  BY DEF Cleanup
<1>3. visitors' \in [Ips -> [count : Nat, lastSeen : Nat]]
  BY DEF Cleanup, LInv, TypeOK, NoVisitor
<1>4. ASSUME NEW ip \in Ips PROVE CountMeaning(ip)'
  <2>1. CASE ~Expired(ip) \/ visitors[ip].count = 0
    BY <2>1, <1>1, <1>2 DEF LInv, CountMeaning, CountExplained, NoVisitor
  <2>2. CASE Expired(ip) /\ visitors[ip].count # 0
    BY <2>2, <1>1, <1>2, ExpiredMeaning DEF CountMeaning, CountExplained, NoVisitor
  <2> QED
    BY <2>1, <2>2
<1> QED
  BY <1>1, <1>3, <1>4 DEF LInv, TypeOK, LogInOrder, watchVars

\* The clock, the setting and its watcher leave entries and log alone.
LEMMA OtherLInv ==
  ASSUME LInv, Tick \/ ChangeSetting \/ WatchRead \/ WatchApply \/ UNCHANGED vars
  PROVE  LInv'
<1>0. TypeOK /\ now \in Nat
  BY DEF LInv, TypeOK
<1>1. UNCHANGED <<visitors, log>>
  BY DEF Tick, ChangeSetting, WatchRead, WatchApply, vars
<1>2. now' \in Nat /\ now <= now'
  BY <1>0 DEF Tick, ChangeSetting, WatchRead, WatchApply, vars
<1>3. TypeOK'
  <2>1. CASE Tick \/ UNCHANGED vars
    BY <2>1, <1>0, <1>1, <1>2 DEF TypeOK, Tick, vars, watchVars
  <2>2. CASE ChangeSetting
    BY <2>2, <1>0, LimiterAssumption DEF TypeOK, ChangeSetting
  <2>3. CASE WatchRead
    <3>1. {Effective(setting)} \in SUBSET (Nat \ {0}) /\ {DefaultRPM} \in SUBSET (Nat \ {0})
      BY <1>0, LimiterAssumption DEF Effective, TypeOK
    <3> QED
      BY <2>3, <3>1, <1>0 DEF TypeOK, WatchRead
  <2>4. CASE WatchApply
    BY <2>4, <1>0 DEF TypeOK, WatchApply
  <2> QED
    BY <2>1, <2>2, <2>3, <2>4
<1>4. ASSUME NEW ip \in Ips PROVE LogInOrder(ip)' /\ CountMeaning(ip)'
  <2>1. LogInOrder(ip) /\ CountMeaning(ip) /\ \A k \in 1 .. Len(log[ip]) : log[ip][k].at \in Nat
    BY LogTypes DEF LInv
  <2>2. Window \in Nat
    BY LimiterAssumption
  <2> QED
    BY <2>1, <2>2, <1>0, <1>1, <1>2 DEF LogInOrder, CountMeaning, CountExplained
<1> QED
  BY <1>3, <1>4 DEF LInv

\* The invariant holds in every run: the counts say what the handler's comparison means.
THEOREM LimiterInvariant == Spec => []LInv
<1>1. LInv /\ [Next]_vars => LInv'
  BY RequestLInv, CleanupLInv, OtherLInv DEF Next
<1> QED
  BY <1>1, InitLInv, PTL DEF Spec

\* Type correctness: every variable stays in its type and no limit is ever 0,
\* whatever value an admin stores.
THEOREM LimiterTypes == Spec => []TypeOK
<1>1. LInv => TypeOK
  BY DEF LInv
<1> QED
  BY <1>1, LimiterInvariant, PTL

----------------------------------------------------------------------------
(* The two safety properties as facts about one client's requests. *)

InWindow(s, i) == {k \in 1 .. i : s[k].ok /\ s[k].at + Window >= s[i].at}

Bounded(s, i) == s[i].ok => Cardinality(InWindow(s, i)) <= s[i].limit

Welcomed(s, i) == (i = 1 \/ s[i].at - s[i - 1].at > Window) => s[i].ok

Sound == \A ip \in Ips : \A i \in 1 .. Len(log[ip]) : Bounded(log[ip], i) /\ Welcomed(log[ip], i)

\* Sound states both properties.
LEMMA SoundMeaning ==
  ASSUME TypeOK PROVE Sound => WindowWithinLimit /\ QuietClientAdmitted
<1>1. ASSUME NEW ip \in Ips PROVE DOMAIN log[ip] = 1 .. Len(log[ip])
  BY DEF TypeOK
<1> QED
  BY <1>1 DEF Sound, Bounded, Welcomed, InWindow, AdmittedInWindow, WindowWithinLimit,
              QuietClientAdmitted

\* What is true of a request stays true when later ones are logged.
LEMMA EarlierStay ==
  ASSUME NEW s, NEW t, NEW i \in Nat, i # 0, \A k \in 1 .. i : t[k] = s[k],
         Bounded(s, i), Welcomed(s, i)
  PROVE  Bounded(t, i) /\ Welcomed(t, i)
<1>1. i \in 1 .. i /\ t[i] = s[i]
  OBVIOUS
<1>2. InWindow(t, i) = InWindow(s, i)
  BY <1>1 DEF InWindow
<1>3. i # 1 => t[i - 1] = s[i - 1]
  OBVIOUS
<1> QED
  BY <1>1, <1>2, <1>3 DEF Bounded, Welcomed

\* The last c of 1 .. n + 1 are c.
LEMMA LastFew ==
  ASSUME NEW n \in Nat, NEW c \in 1 .. n + 1
  PROVE  /\ IsFiniteSet((n + 2 - c) .. (n + 1))
         /\ Cardinality((n + 2 - c) .. (n + 1)) = c
<1>1. \E a \in Int, b \in Int : a = n + 2 - c /\ b = n + 1
  OBVIOUS
<1>2. PICK a \in Int, b \in Int : a = n + 2 - c /\ b = n + 1
  BY <1>1
<1>3. ~(a > b) /\ b - a + 1 = c
  BY <1>2
<1>4. IsFiniteSet(a .. b) /\ Cardinality(a .. b) = b - a + 1
  BY <1>3, FS_Interval
<1> QED
  BY <1>2, <1>3, <1>4

\* An admitted request is the last of at most so many in its window as its count says.
LEMMA NewBounded ==
  ASSUME LInv, NEW ip \in Ips, Request(ip), NEW n, n = Len(log[ip]), NEW c, c = CountAfter(ip),
         Admits(c)
  PROVE  Cardinality(InWindow(log'[ip], n + 1)) <= limit
<1>1. PICK s : s = log'[ip]
  OBVIOUS
<1>2. /\ n \in Nat /\ now \in Nat /\ c \in 1 .. n + 1 /\ Window \in Nat
      /\ limit \in Nat /\ limit # 0
  BY LogTypes, CountRight DEF LInv
<1>3. s[n + 1].at = now /\ \A k \in 1 .. n : s[k] = log[ip][k] /\ s[k].at \in Nat
  <2>1. /\ s[n + 1] = [at |-> now, ok |-> Admits(CountAfter(ip)), limit |-> limit]
        /\ \A k \in 1 .. n : s[k] = log[ip][k]
    BY <1>1, LogAfter DEF LInv
  <2>2. s[n + 1].at = now
    BY <2>1
  <2>3. \A k \in 1 .. n : log[ip][k].at \in Nat
    BY LogTypes DEF LInv
  <2> QED
    BY <2>1, <2>2, <2>3
<1>4. \A k \in 1 .. n : s[k].at <= now
  BY <1>3 DEF LInv, LogInOrder
<1>5. ASSUME NEW k \in 1 .. (n + 1 - c) PROVE s[k].at + Window < now
  <2>1. k \in 1 .. n /\ s[k].at = log[ip][k].at /\ s[k].at \in Nat
    BY <1>2, <1>3
  <2>2. CASE c = 1
    BY <2>1, <2>2, CountRight
  <2>3. CASE c # 1
    <3>1. n + 2 - c \in 1 .. n
      BY <1>2, <2>3
    <3>2. log[ip][n + 2 - c].at <= now /\ log[ip][n + 2 - c].at \in Nat
      BY <3>1, <1>3, <1>4
    <3>3. s[k].at + Window < log[ip][n + 2 - c].at
      BY <2>1, <2>3, CountRight
    <3>4. PICK x \in Nat, y \in Nat : x = s[k].at /\ y = log[ip][n + 2 - c].at
      BY <2>1, <3>2
    <3>5. x + Window < y /\ y <= now
      BY <3>2, <3>3, <3>4
    <3>6. x + Window < now
      BY <3>5, <1>2
    <3> QED
      BY <3>4, <3>6
  <2> QED
    BY <2>2, <2>3
<1>6. InWindow(s, n + 1) \subseteq (n + 2 - c) .. (n + 1)
  <2>1. SUFFICES ASSUME NEW k \in 1 .. n + 1, s[k].at + Window >= now
                 PROVE  k \in (n + 2 - c) .. (n + 1)
    BY <1>2, <1>3 DEF InWindow
  <2>2. k \in Nat /\ k >= 1 /\ k <= n + 1
    BY <1>2
  <2>3. CASE k = n + 1
    BY <2>3, <1>2
  <2>4. CASE k # n + 1
    <3>1. k \in 1 .. n /\ s[k].at \in Nat
      BY <2>2, <2>4, <1>2, <1>3
    <3>2. ~(s[k].at + Window < now)
      BY <2>1, <3>1, <1>2
    <3>3. k \notin 1 .. (n + 1 - c)
      BY <3>2, <1>5
    <3> QED
      BY <3>3, <2>2, <1>2
  <2> QED
    BY <2>3, <2>4
<1>7. c \in Nat
  BY <1>2
<1>8. IsFiniteSet((n + 2 - c) .. (n + 1)) /\ Cardinality((n + 2 - c) .. (n + 1)) = c
  BY <1>2, LastFew
<1>9. Cardinality(InWindow(s, n + 1)) <= c /\ Cardinality(InWindow(s, n + 1)) \in Nat
  BY <1>6, <1>8, FS_Subset, FS_CardinalityType
<1>10. c <= limit
  BY <1>2 DEF Admits
<1> QED
  BY <1>1, <1>2, <1>7, <1>9, <1>10

\* A request after a pause starts the count again.
LEMMA NewWelcomed ==
  ASSUME LInv, NEW ip \in Ips, NEW n, n = Len(log[ip]),
         n = 0 \/ now - log[ip][n].at > Window
  PROVE  CountAfter(ip) = 1
<1>1. n \in Nat /\ visitors[ip].count \in Nat /\ CountMeaning(ip)
  BY LogTypes DEF LInv
<1>2. CASE visitors[ip].count = 0
  BY <1>2 DEF CountAfter
<1>3. CASE visitors[ip].count # 0
  <2>1. visitors[ip].count <= n /\ visitors[ip].lastSeen = log[ip][n].at
    BY <1>1, <1>3 DEF CountMeaning, CountExplained
  <2>2. n # 0
    BY <2>1, <1>1, <1>3
  <2>3. Expired(ip)
    BY <2>1, <2>2 DEF Expired
  <2> QED
    BY <2>3 DEF CountAfter
<1> QED
  BY <1>2, <1>3

\* A request keeps both properties, for its own client and for the others.
LEMMA RequestSound == ASSUME LInv, Sound, NEW ip \in Ips, Request(ip) PROVE Sound'
<1>0. PICK n, c, s : n = Len(log[ip]) /\ c = CountAfter(ip) /\ s = log[ip]
  OBVIOUS
<1>1. TypeOK /\ n \in Nat
  BY <1>0, LogTypes DEF LInv
<1>2. PICK t : t = log'[ip]
  OBVIOUS
<1>3. /\ Len(t) = n + 1
      /\ t[n + 1] = [at |-> now, ok |-> Admits(c), limit |-> limit]
      /\ \A k \in 1 .. n : t[k] = s[k]
      /\ \A x \in Ips : x # ip => log'[x] = log[x]
  BY <1>0, <1>1, <1>2, LogAfter
<1>4. t[n + 1].at = now /\ t[n + 1].ok = Admits(c) /\ t[n + 1].limit = limit
  BY <1>3
<1>5. Bounded(t, n + 1)
  BY <1>0, <1>2, <1>4, NewBounded DEF Bounded
<1>6. Welcomed(t, n + 1)
  <2>1. PICK i : i = n + 1
    OBVIOUS
  <2>2. (i = 1 \/ t[i].at - t[i - 1].at > Window) => t[i].ok
    <3>1. SUFFICES ASSUME i = 1 \/ t[i].at - t[i - 1].at > Window
                   PROVE  Admits(c)
      BY <2>1, <1>4
    <3>2. n = 0 \/ (n \in 1 .. n /\ i - 1 = n)
      BY <2>1, <1>1
    <3>3. n = 0 \/ now - s[n].at > Window
      BY <2>1, <3>1, <3>2, <1>1, <1>3, <1>4
    <3>4. c = 1
      BY <3>3, <1>0, NewWelcomed
    <3> QED
      BY <3>4 DEF Admits
  <2>3. Welcomed(t, i)
    BY <2>2 DEF Welcomed
  <2> QED
    BY <2>1, <2>3
<1>7. ASSUME NEW i \in 1 .. n PROVE Bounded(t, i) /\ Welcomed(t, i)
  <2>1. i \in Nat /\ i # 0 /\ \A k \in 1 .. i : t[k] = s[k]
    BY <1>1, <1>3
  <2>2. Bounded(s, i) /\ Welcomed(s, i)
    BY <1>0 DEF Sound
  <2> QED
    BY <2>1, <2>2, EarlierStay
<1>8. \A i \in 1 .. Len(t) : Bounded(t, i) /\ Welcomed(t, i)
  BY <1>1, <1>3, <1>5, <1>6, <1>7
<1>9. ASSUME NEW x \in Ips, NEW i \in 1 .. Len(log'[x])
      PROVE  Bounded(log'[x], i) /\ Welcomed(log'[x], i)
  <2>1. CASE x = ip
    BY <2>1, <1>2, <1>8
  <2>2. CASE x # ip
    BY <2>2, <1>3 DEF Sound
  <2> QED
    BY <2>1, <2>2
<1>10. Sound' = (\A x \in Ips : \A i \in 1 .. Len(log'[x]) :
                   Bounded(log'[x], i) /\ Welcomed(log'[x], i))
  BY DEF Sound
<1> QED
  BY <1>9, <1>10

\* With the invariant, both properties of the logged requests hold in every run.
THEOREM RequestsSound == Spec => [](LInv /\ Sound)
<1>1. Init => LInv /\ Sound
  BY InitLInv DEF Init, Sound
<1>2. LInv /\ Sound /\ [Next]_vars => Sound'
  <2>1. ASSUME Sound, UNCHANGED log PROVE Sound'
    BY <2>1 DEF Sound, Bounded, Welcomed, InWindow
  <2> QED
    BY <2>1, RequestSound
    DEF Next, Cleanup, Tick, ChangeSetting, WatchRead, WatchApply, vars
<1>3. LInv /\ [Next]_vars => LInv'
  BY RequestLInv, CleanupLInv, OtherLInv DEF Next
<1> QED
  BY <1>1, <1>2, <1>3, PTL DEF Spec

\* No window holds more admitted requests than the limit in force at its last,
\* wherever the cleanup falls and however the limit is changed.
THEOREM WindowsWithinLimit == Spec => []WindowWithinLimit
<1>1. LInv /\ Sound => WindowWithinLimit
  BY SoundMeaning DEF LInv
<1> QED
  BY <1>1, RequestsSound, PTL

\* A client that was quiet for longer than a window is admitted.
THEOREM QuietClientsAdmitted == Spec => []QuietClientAdmitted
<1>1. LInv /\ Sound => QuietClientAdmitted
  BY SoundMeaning DEF LInv
<1> QED
  BY <1>1, RequestsSound, PTL

----------------------------------------------------------------------------
(* The composition *)

\* Where another part moves, the limiter rests: its steps are steps of its own.
LEMMA LimiterRuns == BackgroundSpec => Spec
<1>1. BackgroundInit => Init
  BY DEF BackgroundInit
<1>2. [BackgroundNext]_backgroundVars => [Next]_vars
  BY DEF BackgroundNext, backgroundVars, vars
<1> QED
  BY <1>1, <1>2, PTL DEF BackgroundSpec, Spec

\* So are those of the webhooks.
LEMMA WebhooksRun == BackgroundSpec => Webhooks!Spec
<1>1. BackgroundInit => Webhooks!Init
  BY DEF BackgroundInit
<1>2. [BackgroundNext]_backgroundVars => [Webhooks!Next]_Webhooks!vars
  BY DEF BackgroundNext, backgroundVars, hookVars, Webhooks!vars, Webhooks!adminVars,
         Webhooks!secretVars, Webhooks!postVars
<1> QED
  BY <1>1, <1>2, PTL DEF BackgroundSpec, Webhooks!Spec

\* And those of ffmpeg and its reader.
LEMMA EncoderRuns == BackgroundSpec => Encoder!Spec
<1>1. BackgroundInit => Encoder!Init
  BY DEF BackgroundInit
<1>2. [BackgroundNext]_backgroundVars => [Encoder!Next]_Encoder!vars
  BY DEF BackgroundNext, backgroundVars, runVars, Encoder!vars
<1> QED
  BY <1>1, <1>2, PTL DEF BackgroundSpec, Encoder!Spec

----------------------------------------------------------------------------
(* The deliveries of webhooks *)

\* What tells how far a delivery came: the attempts before this one were posted, and none
\* of them is recorded as a success.
DeliveryOK(d) ==
  LET s == sending[d] IN
  /\ s.pc = "none" => tried[d] = {} /\ rows[d] = {}
  /\ s.pc = "post" => s.attempt >= 1 /\ tried[d] = 1 .. s.attempt - 1
  /\ s.pc = "record" =>
       s.attempt >= 1 /\ tried[d] = 1 .. s.attempt /\ (s.success => s.attempt \in accepted[d])
  /\ s.pc \in {"post", "record"} => \A r \in rows[d] : ~r.success
  /\ s.pc = "ended" /\ s.attempt = 0 => tried[d] = {} /\ rows[d] = {}

\* The requests whose secret is stored for the webhook and not yet answered.
StoredFor(requests, h) == {n \in 1 .. MaxSecrets : requests[n] = [pc |-> "stored", hook |-> h]}

\* The secret of a webhook is the one shown last, or the only one still to be shown; unless
\* several were to be shown at once, or the last was never shown.
SecretOf(h) ==
  Webhooks!Live(h) /\ h \notin mixed =>
    \/ StoredFor(asks, h) = {} /\ hooks[h].secret = shown[h]
    \/ StoredFor(asks, h) = {hooks[h].secret}

\* A request is made once, for a webhook there is or was.
AskOK(n) ==
  /\ n > secrets => asks[n] = Webhooks!NoAsk
  /\ asks[n].pc \in {"found", "stored"} => hooks[asks[n].hook].state # "none"

SecretInv == (\A h \in Hooks : SecretOf(h)) /\ \A n \in 1 .. MaxSecrets : AskOK(n)

\* The inductive invariant.
DeliveryInv ==
  /\ Webhooks!TypeOK /\ SecretInv
       /\ Webhooks!EndedMeansDeliveredOrExhausted /\ Webhooks!LogAgreesWithReceiver
  /\ \A d \in Webhooks!Deliveries : DeliveryOK(d)

\* What the invariant says of one delivery.
Delivered(d) ==
  LET s == sending[d] IN
  /\ s.pc = "ended" /\ s.attempt > 0 => tried[d] = 1 .. s.attempt
       /\ (~s.success => s.attempt = Webhooks!MaxAttempts)
  /\ \A r \in rows[d] :
       /\ r.attempt \in tried[d]
       /\ r.success => r.attempt \in accepted[d] /\ \A n \in tried[d] : n <= r.attempt
  /\ DeliveryOK(d)

\* The invariant, delivery by delivery.
LEMMA DeliveryMeaning ==
  DeliveryInv <=> Webhooks!TypeOK /\ SecretInv
    /\ \A d \in Webhooks!Deliveries : Delivered(d)
BY DEF DeliveryInv, Webhooks!EndedMeansDeliveredOrExhausted, Webhooks!LogAgreesWithReceiver,
       Delivered

\* At the start nothing was sent.
LEMMA InitDelivery ==
  ASSUME MaxFaults \in Nat, MaxSecrets \in Nat, Webhooks!Init PROVE DeliveryInv
<1>1. Webhooks!TypeOK
  BY DEF Webhooks!Init, Webhooks!TypeOK, Webhooks!Row, Webhooks!NoRow, Webhooks!Sending,
         Webhooks!Idle, Webhooks!Edit, Webhooks!NoEdit, Webhooks!MaxAttempts, Webhooks!Ask
<1>2. SecretInv
  BY DEF Webhooks!Init, SecretInv, SecretOf, AskOK, Webhooks!Live, Webhooks!NoRow,
         Webhooks!NoAsk
<1>3. \A d \in Webhooks!Deliveries : Delivered(d)
  BY DEF Webhooks!Init, Delivered, DeliveryOK, Webhooks!Idle
<1> QED
  BY <1>1, <1>2, <1>3, DeliveryMeaning

\* A delivery that a step leaves alone, or that loses its records, is as it was.
LEMMA ToldStays ==
  ASSUME NEW d \in Webhooks!Deliveries, Delivered(d),
         UNCHANGED <<sending[d], tried[d], accepted[d]>>,
         rows'[d] \subseteq rows[d]
  PROVE  Delivered(d)'
BY DEF Delivered, DeliveryOK

\* A step of the owner's requests leaves the deliveries alone, or deletes their records.
LEMMA OwnersStep ==
  ASSUME DeliveryInv, UNCHANGED <<sending, tried, accepted>>,
         rows' \in [Webhooks!Deliveries -> SUBSET [attempt : 1 .. Webhooks!MaxAttempts, success : BOOLEAN]],
         \A d \in Webhooks!Deliveries : rows'[d] \subseteq rows[d],
         hooks' \in [Hooks -> Webhooks!Row], secrets' \in 0 .. MaxSecrets,
         asks' \in [1 .. MaxSecrets -> Webhooks!Ask], shown' \in [Hooks -> Nat],
         mixed' \subseteq Hooks, edits' \in [Editors -> Webhooks!Edit], errors' \in Nat,
         SecretInv'
  PROVE  DeliveryInv'
<1>1. Webhooks!TypeOK /\ \A d \in Webhooks!Deliveries : Delivered(d)
  BY DeliveryMeaning
<1>2. \A d \in Webhooks!Deliveries : Delivered(d)'
  BY <1>1, ToldStays
<1> QED
  BY <1>1, <1>2 DEF Webhooks!TypeOK, DeliveryInv, Webhooks!EndedMeansDeliveredOrExhausted,
                    Webhooks!LogAgreesWithReceiver, Delivered

\* The requests that generate a secret: a webhook whose secret was stored alone has that one.
LEMMA AsksKeepSecrets ==
  ASSUME MaxSecrets \in Nat, DeliveryInv,
         \/ \E h \in Hooks : Webhooks!Create(h) \/ Webhooks!RegenerateSecret(h)
         \/ \E n \in 1 .. MaxSecrets :
              Webhooks!UpdateSecret(n) \/ Webhooks!SecretShown(n) \/ Webhooks!AskFails(n)
  PROVE  DeliveryInv'
<1>0. Webhooks!TypeOK /\ SecretInv
  BY DEF DeliveryInv
<1>1. /\ hooks \in [Hooks -> Webhooks!Row] /\ shown \in [Hooks -> Nat]
      /\ secrets \in 0 .. MaxSecrets /\ asks \in [1 .. MaxSecrets -> Webhooks!Ask]
      /\ mixed \subseteq Hooks /\ errors \in Nat /\ edits \in [Editors -> Webhooks!Edit]
      /\ rows \in [Webhooks!Deliveries -> SUBSET [attempt : 1 .. Webhooks!MaxAttempts, success : BOOLEAN]]
  BY <1>0 DEF Webhooks!TypeOK
<1>2. UNCHANGED <<sending, tried, accepted, rows, edits>>
  BY DEF Webhooks!Create, Webhooks!RegenerateSecret, Webhooks!UpdateSecret, Webhooks!SecretShown,
         Webhooks!AskFails, Webhooks!postVars
<1>3. ASSUME hooks' \in [Hooks -> Webhooks!Row], secrets' \in 0 .. MaxSecrets,
             asks' \in [1 .. MaxSecrets -> Webhooks!Ask], shown' \in [Hooks -> Nat],
             mixed' \subseteq Hooks, errors' \in Nat,
             \A h \in Hooks : SecretOf(h)', \A n \in 1 .. MaxSecrets : AskOK(n)'
      PROVE  DeliveryInv'
  <2>1. SecretInv'
    BY <1>3 DEF SecretInv
  <2> QED
    BY <1>1, <1>2, <1>3, <2>1, OwnersStep
<1>4. ASSUME NEW h \in Hooks, Webhooks!Create(h) PROVE DeliveryInv'
  <2>1. PICK n, a, row : n = secrets + 1 /\ a = [pc |-> "stored", hook |-> h]
          /\ row = [state |-> "live", active |-> TRUE, valid |-> TRUE, secret |-> n]
    OBVIOUS
  <2>2. /\ n \in 1 .. MaxSecrets /\ secrets' = n /\ hooks' = [hooks EXCEPT ![h] = row]
        /\ asks' = [asks EXCEPT ![n] = a] /\ UNCHANGED <<shown, mixed, errors>>
        /\ hooks[h].state = "none"
    BY <1>1, <1>4, <2>1 DEF Webhooks!Create
  <2>3. row \in Webhooks!Row /\ a \in Webhooks!Ask
    BY <2>1, <2>2 DEF Webhooks!Row, Webhooks!Ask
  <2>4. StoredFor(asks, h) = {}
    <3>1. \A m \in 1 .. MaxSecrets : asks[m] # [pc |-> "stored", hook |-> h]
      BY <1>0, <2>2 DEF SecretInv, AskOK
    <3> QED
      BY <3>1 DEF StoredFor
  <2>5. \A g \in Hooks : StoredFor(asks', g) =
          IF a = [pc |-> "stored", hook |-> g] THEN StoredFor(asks, g) \cup {n}
          ELSE StoredFor(asks, g) \ {n}
    <3>1. \A m \in 1 .. MaxSecrets : asks'[m] = IF m = n THEN a ELSE asks[m]
      BY <1>1, <2>2
    <3> QED
      BY <3>1, <1>1, <2>2 DEF StoredFor
  <2>6. ASSUME NEW g \in Hooks PROVE SecretOf(g)'
    <3>1. CASE g = h
      <4>1. StoredFor(asks', g) = {n}
        BY <2>1, <2>4, <2>5, <3>1
      <4> QED
        BY <1>1, <2>1, <2>2, <3>1, <4>1 DEF SecretOf
    <3>2. CASE g # h
      <4>1. a # [pc |-> "stored", hook |-> g]
        BY <2>1, <3>2
      <4>2. n \notin StoredFor(asks, g)
        BY <1>0, <1>1, <2>1, <2>2 DEF SecretInv, AskOK, StoredFor, Webhooks!NoAsk
      <4>3. StoredFor(asks', g) = StoredFor(asks, g)
        BY <2>5, <4>1, <4>2
      <4> QED
        BY <1>0, <1>1, <2>2, <3>2, <4>3 DEF SecretInv, SecretOf, Webhooks!Live
    <3> QED
      BY <3>1, <3>2
  <2>7. ASSUME NEW m \in 1 .. MaxSecrets PROVE AskOK(m)'
    <3>1. CASE m = n
      BY <1>1, <2>1, <2>2, <3>1 DEF AskOK
    <3>2. CASE m # n
      <4>1. asks'[m] = asks[m] /\ (m > secrets' => m > secrets)
        BY <1>1, <2>1, <2>2, <3>2
      <4>2. AskOK(m) /\ row.state # "none"
        BY <1>0, <2>1 DEF SecretInv
      <4>3. asks[m].pc \in {"found", "stored"} => asks[m].hook \in Hooks
        BY <1>1 DEF Webhooks!Ask, Webhooks!NoAsk, Webhooks!AskDone
      <4> QED
        BY <1>1, <2>2, <4>1, <4>2, <4>3 DEF AskOK
    <3> QED
      BY <3>1, <3>2
  <2>8. /\ hooks' \in [Hooks -> Webhooks!Row] /\ secrets' \in 0 .. MaxSecrets
        /\ asks' \in [1 .. MaxSecrets -> Webhooks!Ask] /\ shown' \in [Hooks -> Nat]
        /\ mixed' \subseteq Hooks /\ errors' \in Nat
    BY <1>1, <2>2, <2>3
  <2> QED
    BY <1>3, <2>6, <2>7, <2>8
<1>5. ASSUME NEW h \in Hooks, Webhooks!RegenerateSecret(h) PROVE DeliveryInv'
  <2>1. PICK n, a : n = secrets + 1 /\ a = [pc |-> "found", hook |-> h]
    OBVIOUS
  <2>2. /\ n \in 1 .. MaxSecrets /\ secrets' = n /\ asks' = [asks EXCEPT ![n] = a]
        /\ UNCHANGED <<hooks, shown, mixed, errors>> /\ hooks[h].state = "live"
    BY <1>1, <1>5, <2>1 DEF Webhooks!RegenerateSecret, Webhooks!Live
  <2>3. a \in Webhooks!Ask
    BY <2>1 DEF Webhooks!Ask
  <2>4. \A g \in Hooks : StoredFor(asks', g) =
          IF a = [pc |-> "stored", hook |-> g] THEN StoredFor(asks, g) \cup {n}
          ELSE StoredFor(asks, g) \ {n}
    <3>1. \A m \in 1 .. MaxSecrets : asks'[m] = IF m = n THEN a ELSE asks[m]
      BY <1>1, <2>2
    <3> QED
      BY <3>1, <1>1, <2>2 DEF StoredFor
  <2>5. ASSUME NEW g \in Hooks PROVE SecretOf(g)'
    <3>1. a # [pc |-> "stored", hook |-> g]
      BY <2>1
    <3>2. n \notin StoredFor(asks, g)
      BY <1>0, <1>1, <2>1, <2>2 DEF SecretInv, AskOK, StoredFor, Webhooks!NoAsk
    <3>3. StoredFor(asks', g) = StoredFor(asks, g)
      BY <2>4, <3>1, <3>2
    <3> QED
      BY <1>0, <2>2, <3>3 DEF SecretInv, SecretOf, Webhooks!Live
  <2>6. ASSUME NEW m \in 1 .. MaxSecrets PROVE AskOK(m)'
    <3>1. CASE m = n
      BY <1>1, <2>1, <2>2, <3>1 DEF AskOK
    <3>2. CASE m # n
      BY <1>0, <1>1, <2>1, <2>2, <3>2 DEF SecretInv, AskOK
    <3> QED
      BY <3>1, <3>2
  <2>7. secrets' \in 0 .. MaxSecrets /\ asks' \in [1 .. MaxSecrets -> Webhooks!Ask]
    BY <1>1, <2>2, <2>3
  <2> QED
    BY <1>1, <1>3, <2>2, <2>5, <2>6, <2>7
<1>6. ASSUME NEW n \in 1 .. MaxSecrets, Webhooks!UpdateSecret(n) PROVE DeliveryInv'
  <2>1. PICK h, a : h = asks[n].hook /\ a = [pc |-> "stored", hook |-> h]
    OBVIOUS
  <2>2. asks[n] \in [pc : {"found"}, hook : Hooks] /\ AskOK(n)
    BY <1>0, <1>1, <1>6 DEF Webhooks!UpdateSecret, Webhooks!Ask, Webhooks!NoAsk, Webhooks!AskDone,
                            SecretInv
  <2>3. h \in Hooks /\ a \in Webhooks!Ask /\ n <= secrets /\ hooks[h].state # "none"
    BY <1>1, <2>1, <2>2 DEF Webhooks!Ask, AskOK, Webhooks!NoAsk
  <2>4. [asks[n] EXCEPT !.pc = "stored"] = a
    BY <2>1, <2>2
  <2>5. /\ asks' = [asks EXCEPT ![n] = a] /\ UNCHANGED <<secrets, shown, errors>>
        /\ hooks' = IF Webhooks!Live(h) THEN [hooks EXCEPT ![h].secret = n] ELSE hooks
        /\ mixed' = IF StoredFor(asks, h) = {} THEN mixed \ {h} ELSE mixed \cup {h}
    BY <1>6, <2>1, <2>4 DEF Webhooks!UpdateSecret, Webhooks!Unanswered, StoredFor
  <2>6. /\ hooks' \in [Hooks -> Webhooks!Row]
        /\ \A g \in Hooks :
             hooks'[g].state = hooks[g].state /\ (g # h => hooks'[g] = hooks[g])
        /\ Webhooks!Live(h) => hooks'[h].secret = n
    <3>1. PICK row : row = [hooks[h] EXCEPT !.secret = n]
      OBVIOUS
    <3>2. row \in Webhooks!Row /\ row.secret = n /\ row.state = hooks[h].state
      <4>1. hooks[h] \in Webhooks!Row /\ n \in Nat
        BY <1>1, <2>3
      <4> QED
        BY <3>1, <4>1 DEF Webhooks!Row
    <3>3. hooks' = IF Webhooks!Live(h) THEN [hooks EXCEPT ![h] = row] ELSE hooks
      BY <2>5, <3>1
    <3> QED
      BY <1>1, <2>3, <3>2, <3>3
  <2>7. \A g \in Hooks : StoredFor(asks', g) =
          IF a = [pc |-> "stored", hook |-> g] THEN StoredFor(asks, g) \cup {n}
          ELSE StoredFor(asks, g) \ {n}
    <3>1. \A m \in 1 .. MaxSecrets : asks'[m] = IF m = n THEN a ELSE asks[m]
      BY <1>1, <2>5
    <3> QED
      BY <3>1, <1>1, <2>5 DEF StoredFor
  <2>8. ASSUME NEW g \in Hooks PROVE SecretOf(g)'
    <3>1. CASE g = h
      <4>1. StoredFor(asks', g) = StoredFor(asks, h) \cup {n}
        BY <2>1, <2>7, <3>1
      <4> QED
        BY <2>5, <2>6, <3>1, <4>1 DEF SecretOf, Webhooks!Live
    <3>2. CASE g # h
      <4>1. a # [pc |-> "stored", hook |-> g] /\ n \notin StoredFor(asks, g)
        BY <2>1, <2>2, <3>2 DEF StoredFor
      <4>2. StoredFor(asks', g) = StoredFor(asks, g)
        BY <2>7, <4>1
      <4> QED
        BY <1>0, <2>5, <2>6, <3>2, <4>2 DEF SecretInv, SecretOf, Webhooks!Live
    <3> QED
      BY <3>1, <3>2
  <2>9. ASSUME NEW m \in 1 .. MaxSecrets PROVE AskOK(m)'
    <3>1. CASE m = n
      BY <1>1, <2>1, <2>3, <2>5, <2>6, <3>1 DEF AskOK
    <3>2. CASE m # n
      <4>1. asks'[m] = asks[m] /\ AskOK(m)
        BY <1>0, <1>1, <2>5, <3>2 DEF SecretInv
      <4>2. asks[m].pc \in {"found", "stored"} => asks[m].hook \in Hooks
        BY <1>1 DEF Webhooks!Ask, Webhooks!NoAsk, Webhooks!AskDone
      <4> QED
        BY <2>5, <2>6, <4>1, <4>2 DEF AskOK
    <3> QED
      BY <3>1, <3>2
  <2>10. asks' \in [1 .. MaxSecrets -> Webhooks!Ask] /\ mixed' \subseteq Hooks
    BY <1>1, <2>3, <2>5
  <2> QED
    BY <1>1, <1>3, <2>5, <2>6, <2>8, <2>9, <2>10
<1>7. ASSUME NEW n \in 1 .. MaxSecrets,
             Webhooks!SecretShown(n) \/ Webhooks!AskFails(n) PROVE DeliveryInv'
  <2>1. PICK h : h = asks[n].hook
    OBVIOUS
  <2>2. asks[n] \in [pc : {"found", "stored"}, hook : Hooks] /\ AskOK(n)
    BY <1>0, <1>1, <1>7 DEF Webhooks!SecretShown, Webhooks!AskFails, Webhooks!Ask, Webhooks!NoAsk,
                            Webhooks!AskDone, SecretInv
  <2>3. h \in Hooks /\ Webhooks!AskDone \in Webhooks!Ask /\ n <= secrets /\ n \in Nat
    BY <1>1, <2>1, <2>2 DEF Webhooks!Ask, AskOK, Webhooks!NoAsk
  <2>4. asks' = [asks EXCEPT ![n] = Webhooks!AskDone] /\ UNCHANGED <<hooks, secrets>>
    BY <1>7 DEF Webhooks!SecretShown, Webhooks!AskFails
  <2>5. \/ asks[n].pc = "stored" /\ shown' = [shown EXCEPT ![h] = n] /\ UNCHANGED <<mixed, errors>>
        \/ asks[n].pc = "stored" /\ mixed' = mixed \cup {h} /\ UNCHANGED shown /\ errors' \in Nat
        \/ asks[n].pc = "found" /\ UNCHANGED <<mixed, shown>> /\ errors' \in Nat
    BY <1>1, <1>7, <2>1 DEF Webhooks!SecretShown, Webhooks!AskFails
  <2>6. \A g \in Hooks : StoredFor(asks', g) = StoredFor(asks, g) \ {n}
    <3>1. \A m \in 1 .. MaxSecrets : asks'[m] = IF m = n THEN Webhooks!AskDone ELSE asks[m]
      BY <1>1, <2>4
    <3>2. \A g \in Hooks : Webhooks!AskDone # [pc |-> "stored", hook |-> g]
      BY DEF Webhooks!AskDone
    <3> QED
      BY <3>1, <3>2 DEF StoredFor
  <2>7. \A g \in Hooks : n \in StoredFor(asks, g) <=> asks[n].pc = "stored" /\ g = h
    BY <2>1, <2>2 DEF StoredFor
  <2>8. ASSUME NEW g \in Hooks PROVE SecretOf(g)'
    <3>1. CASE n \in StoredFor(asks, g)
      BY <1>0, <1>1, <2>4, <2>5, <2>6, <2>7, <3>1 DEF SecretInv, SecretOf, Webhooks!Live
    <3>2. CASE n \notin StoredFor(asks, g)
      <4>1. StoredFor(asks', g) = StoredFor(asks, g)
        BY <2>6, <3>2
      <4>2. shown'[g] = shown[g] /\ (g \in mixed => g \in mixed')
        BY <1>1, <2>5, <2>7, <3>2
      <4> QED
        BY <1>0, <2>4, <4>1, <4>2 DEF SecretInv, SecretOf, Webhooks!Live
    <3> QED
      BY <3>1, <3>2
  <2>9. ASSUME NEW m \in 1 .. MaxSecrets PROVE AskOK(m)'
    <3>1. CASE m = n
      BY <1>1, <2>3, <2>4, <3>1 DEF AskOK, Webhooks!AskDone
    <3>2. CASE m # n
      BY <1>0, <1>1, <2>4, <3>2 DEF SecretInv, AskOK
    <3> QED
      BY <3>1, <3>2
  <2>10. /\ asks' \in [1 .. MaxSecrets -> Webhooks!Ask] /\ shown' \in [Hooks -> Nat]
         /\ mixed' \subseteq Hooks /\ errors' \in Nat
    BY <1>1, <2>3, <2>4, <2>5
  <2> QED
    BY <1>1, <1>3, <2>4, <2>8, <2>9, <2>10
<1> QED
  BY <1>4, <1>5, <1>6, <1>7

\* The owner's other requests: whatever was read before, the secret stays as it is.
LEMMA RequestsKeepSecrets ==
  ASSUME DeliveryInv,
         \/ \E h \in Hooks : Webhooks!Delete(h)
         \/ \E c \in Editors : Webhooks!UpdateWrite(c) \/ \E h \in Hooks : Webhooks!UpdateRead(c, h)
  PROVE  DeliveryInv'
<1>0. Webhooks!TypeOK /\ SecretInv
  BY DEF DeliveryInv
<1>1. /\ hooks \in [Hooks -> Webhooks!Row] /\ shown \in [Hooks -> Nat]
      /\ secrets \in 0 .. MaxSecrets /\ asks \in [1 .. MaxSecrets -> Webhooks!Ask]
      /\ mixed \subseteq Hooks /\ errors \in Nat /\ edits \in [Editors -> Webhooks!Edit]
      /\ rows \in [Webhooks!Deliveries -> SUBSET [attempt : 1 .. Webhooks!MaxAttempts, success : BOOLEAN]]
  BY <1>0 DEF Webhooks!TypeOK
<1>2. UNCHANGED <<sending, tried, accepted, errors, secrets, asks, shown, mixed>>
  BY DEF Webhooks!Delete, Webhooks!UpdateWrite, Webhooks!UpdateRead, Webhooks!postVars,
         Webhooks!adminVars, Webhooks!secretVars
<1>3. \A d \in Webhooks!Deliveries : rows'[d] \subseteq rows[d]
  BY <1>1 DEF Webhooks!Delete, Webhooks!UpdateWrite, Webhooks!UpdateRead, Webhooks!Deliveries
<1>4. rows' \in [Webhooks!Deliveries -> SUBSET [attempt : 1 .. Webhooks!MaxAttempts, success : BOOLEAN]]
  BY <1>1 DEF Webhooks!Delete, Webhooks!UpdateWrite, Webhooks!UpdateRead
<1>5. \A g : StoredFor(asks', g) = StoredFor(asks, g)
  BY <1>2 DEF StoredFor
<1>6. ASSUME hooks' \in [Hooks -> Webhooks!Row], edits' \in [Editors -> Webhooks!Edit],
             \A g \in Hooks :
               /\ hooks'[g].state = "none" => hooks[g].state = "none"
               /\ hooks'[g].state = "live" =>
                    hooks[g].state = "live" /\ hooks'[g].secret = hooks[g].secret
      PROVE  DeliveryInv'
  <2>1. ASSUME NEW g \in Hooks PROVE SecretOf(g)'
    BY <1>0, <1>2, <1>5, <1>6 DEF SecretInv, SecretOf, Webhooks!Live
  <2>2. ASSUME NEW m \in 1 .. MaxSecrets PROVE AskOK(m)'
    <3>1. AskOK(m) /\ (asks[m].pc \in {"found", "stored"} => asks[m].hook \in Hooks)
      BY <1>0, <1>1 DEF SecretInv, Webhooks!Ask, Webhooks!NoAsk, Webhooks!AskDone
    <3>2. asks'[m] = asks[m] /\ secrets' = secrets
      BY <1>2
    <3>3. asks[m].pc \in {"found", "stored"} => hooks'[asks[m].hook].state # "none"
      BY <1>6, <3>1 DEF AskOK
    <3> QED
      BY <3>1, <3>2, <3>3 DEF AskOK
  <2>3. SecretInv'
    BY <2>1, <2>2 DEF SecretInv
  <2> QED
    BY <1>1, <1>2, <1>3, <1>4, <1>6, <2>3, OwnersStep
<1>7. ASSUME NEW h \in Hooks, Webhooks!Delete(h) PROVE DeliveryInv'
  <2>1. PICK row : row = [Webhooks!NoRow EXCEPT !.state = "deleted"]
    OBVIOUS
  <2>2. row \in Webhooks!Row /\ row.state = "deleted"
    BY <2>1 DEF Webhooks!NoRow, Webhooks!Row
  <2>3. hooks' = [hooks EXCEPT ![h] = row] /\ UNCHANGED edits
    BY <1>7, <2>1 DEF Webhooks!Delete, Webhooks!adminVars
  <2> QED
    BY <1>1, <1>6, <2>2, <2>3
<1>8. ASSUME NEW c \in Editors, NEW h \in Hooks, Webhooks!UpdateRead(c, h) PROVE DeliveryInv'
  <2>1. PICK row \in {[hooks[h] EXCEPT !.active = ~@], [hooks[h] EXCEPT !.valid = ~@]} :
          edits' = [edits EXCEPT ![c] = [pc |-> "read", hook |-> h, row |-> row]]
    BY <1>8 DEF Webhooks!UpdateRead
  <2>2. row \in Webhooks!Row
    BY <1>1 DEF Webhooks!Row
  <2>3. edits' \in [Editors -> Webhooks!Edit] /\ UNCHANGED hooks
    BY <1>1, <1>8, <2>1, <2>2 DEF Webhooks!Edit, Webhooks!UpdateRead
  <2> QED
    BY <1>1, <1>6, <2>3
<1>9. ASSUME NEW c \in Editors, Webhooks!UpdateWrite(c) PROVE DeliveryInv'
  <2>1. PICK h, row : h = edits[c].hook /\ row = edits[c].row
    OBVIOUS
  <2>2. edits[c] \in [pc : {"read"}, hook : Hooks, row : Webhooks!Row]
    BY <1>1, <1>9 DEF Webhooks!UpdateWrite, Webhooks!Edit, Webhooks!NoEdit
  <2>3. h \in Hooks /\ row \in Webhooks!Row
    BY <2>1, <2>2
  <2>4. edits' \in [Editors -> Webhooks!Edit]
    BY <1>1, <1>9 DEF Webhooks!Edit, Webhooks!UpdateWrite
  <2>5. hooks' = IF Webhooks!Live(h) THEN [hooks EXCEPT ![h] = Webhooks!Written(h, row)] ELSE hooks
    BY <1>9, <2>1 DEF Webhooks!UpdateWrite
  <2>6. Webhooks!Written(h, row) \in Webhooks!Row
        /\ Webhooks!Written(h, row).secret = hooks[h].secret
        /\ Webhooks!Written(h, row).state = hooks[h].state
    BY <1>1, <2>3 DEF Webhooks!Written, Webhooks!Row
  <2> QED
    BY <1>1, <1>6, <2>3, <2>4, <2>5, <2>6
<1> QED
  BY <1>7, <1>8, <1>9

\* A step of the service: the tables of the owner stay, the edits of a restart aside.
LEMMA ServiceStep ==
  ASSUME DeliveryInv, UNCHANGED <<hooks, secrets, asks, shown, mixed>>,
         edits' \in [Editors -> Webhooks!Edit],
         errors' \in Nat,
         sending' \in [Webhooks!Deliveries -> Webhooks!Sending],
         rows' \in [Webhooks!Deliveries -> SUBSET [attempt : 1 .. Webhooks!MaxAttempts, success : BOOLEAN]],
         tried' \in [Webhooks!Deliveries -> SUBSET (1 .. Webhooks!MaxAttempts)],
         accepted' \in [Webhooks!Deliveries -> SUBSET (1 .. Webhooks!MaxAttempts)],
         \A d \in Webhooks!Deliveries : Delivered(d)'
  PROVE  DeliveryInv'
<1>1. SecretInv'
  BY DEF DeliveryInv, SecretInv, SecretOf, AskOK, Webhooks!Live, StoredFor
<1> QED
  BY <1>1 DEF DeliveryInv, Webhooks!TypeOK, Webhooks!EndedMeansDeliveredOrExhausted,
              Webhooks!LogAgreesWithReceiver, Delivered

\* A delivery that is over before it began.
LEMMA IdleEnds ==
  ASSUME NEW pc \in {"ended", "lost"}
  PROVE  [Webhooks!Idle EXCEPT !.pc = pc] \in Webhooks!Sending
         /\ [Webhooks!Idle EXCEPT !.pc = pc].pc = pc
<1>0. Webhooks!Idle \in Webhooks!Sending
  BY DEF Webhooks!Idle, Webhooks!Sending, Webhooks!MaxAttempts
<1>1. PICK z \in Webhooks!Sending : z = Webhooks!Idle
  BY <1>0
<1>2. [z EXCEPT !.pc = pc] \in Webhooks!Sending /\ [z EXCEPT !.pc = pc].pc = pc
  BY DEF Webhooks!Sending
<1> QED
  BY <1>1, <1>2

\* An event starts with its first attempt, or not at all.
LEMMA FireStep == ASSUME DeliveryInv, NEW e \in Events, Webhooks!Fire(e) PROVE DeliveryInv'
<1>0. Webhooks!TypeOK /\ \A d \in Webhooks!Deliveries : Delivered(d)
  BY DeliveryMeaning
<1>1. UNCHANGED <<hooks, secrets, asks, shown, mixed, edits, rows, tried, accepted>>
      /\ errors' \in Nat
  BY <1>0 DEF Webhooks!Fire, Webhooks!adminVars, Webhooks!secretVars, Webhooks!postVars, Webhooks!TypeOK
<1>2. \A d \in Webhooks!Deliveries : sending[d] \in Webhooks!Sending
      /\ (d[1] = e => sending[d].pc = "none")
  BY <1>0 DEF Webhooks!TypeOK, Webhooks!Fire, Webhooks!Deliveries
<1>3. \A d \in Webhooks!Deliveries : Webhooks!Subscribed \subseteq Hooks
      /\ hooks \in [Hooks -> Webhooks!Row] /\ d[2] \in Hooks
  BY <1>0 DEF Webhooks!TypeOK, Webhooks!Subscribed, Webhooks!Deliveries
<1>4. /\ sending' = [d \in Webhooks!Deliveries |-> sending'[d]]
      /\ \A d \in Webhooks!Deliveries :
        \/ sending'[d] = sending[d]
        \/ sending'[d] = [Webhooks!Idle EXCEPT !.pc = "ended"] /\ sending[d].pc = "none"
        \/ sending'[d] = [pc |-> "post", valid |-> hooks[d[2]].valid, secret |-> hooks[d[2]].secret,
                          attempt |-> 1, success |-> FALSE] /\ sending[d].pc = "none"
  BY <1>2 DEF Webhooks!Fire
<1>5. ASSUME NEW d \in Webhooks!Deliveries PROVE sending'[d] \in Webhooks!Sending
  <2>1. PICK row \in Webhooks!Row : row = hooks[d[2]]
    BY <1>3
  <2>2. [pc |-> "post", valid |-> row.valid, secret |-> row.secret, attempt |-> 1, success |-> FALSE]
          \in Webhooks!Sending
    BY DEF Webhooks!Row, Webhooks!Sending, Webhooks!MaxAttempts
  <2>3. [Webhooks!Idle EXCEPT !.pc = "ended"] \in Webhooks!Sending
    BY IdleEnds
  <2> QED
    BY <1>2, <1>4, <2>1, <2>2, <2>3
<1>6. sending' \in [Webhooks!Deliveries -> Webhooks!Sending]
  BY <1>4, <1>5
<1>7. ASSUME NEW d \in Webhooks!Deliveries PROVE Delivered(d)'
  <2>1. CASE sending'[d] = sending[d]
    BY <2>1, <1>0, <1>1, ToldStays
  <2>2. CASE sending[d].pc = "none" /\ sending'[d].pc = "ended" /\ sending'[d].attempt = 0
    BY <2>2, <1>0, <1>1 DEF Delivered, DeliveryOK
  <2>3. CASE sending[d].pc = "none" /\ sending'[d].pc = "post" /\ sending'[d].attempt = 1
    BY <2>3, <1>0, <1>1 DEF Delivered, DeliveryOK
  <2> QED
    BY <2>1, <2>2, <2>3, <1>4 DEF Webhooks!Idle
<1> QED
  BY <1>0, <1>1, <1>6, <1>7, ServiceStep DEF Webhooks!TypeOK

\* One delivery moves.
OneMoves(d, s) ==
  /\ sending' = [sending EXCEPT ![d] = s]
  /\ \A x \in Webhooks!Deliveries \ {d} : UNCHANGED <<rows[x], tried[x], accepted[x]>>

\* The others are as they were.
LEMMA OthersTold ==
  ASSUME DeliveryInv, NEW d \in Webhooks!Deliveries, NEW s, OneMoves(d, s), Delivered(d)'
  PROVE  \A x \in Webhooks!Deliveries : Delivered(x)'
<1>1. \A x \in Webhooks!Deliveries \ {d} : sending'[x] = sending[x] /\ Delivered(x)
  BY DeliveryMeaning DEF OneMoves, DeliveryInv, Webhooks!TypeOK
<1> QED
  BY <1>1, ToldStays DEF OneMoves

\* An attempt is posted, the first that was not.
LEMMA PostStep == ASSUME DeliveryInv, NEW d \in Webhooks!Deliveries, Webhooks!Post(d)
  PROVE DeliveryInv'
<1>0. Webhooks!TypeOK /\ Delivered(d)
  BY DeliveryMeaning
<1>1. PICK o \in Webhooks!Outcomes :
        /\ sending' = [sending EXCEPT ![d].pc = "record", ![d].success = o.success]
        /\ accepted' = IF o.accepts THEN [accepted EXCEPT ![d] = @ \cup {sending[d].attempt}] ELSE accepted
  BY DEF Webhooks!Post
<1>2. PICK s, n : s = [sending[d] EXCEPT !.pc = "record", !.success = o.success]
      /\ n = sending[d].attempt
  OBVIOUS
<1>3. sending[d] \in Webhooks!Sending /\ o.success \in BOOLEAN /\ (o.success => o.accepts)
      /\ sending[d].pc = "post"
  BY <1>0 DEF Webhooks!TypeOK, Webhooks!Outcomes, Webhooks!Post
<1>4. /\ s \in Webhooks!Sending /\ s.pc = "record" /\ s.success = o.success /\ s.attempt = n
      /\ n \in 1 .. Webhooks!MaxAttempts /\ tried[d] = 1 .. n - 1
  <2>1. n >= 1 /\ tried[d] = 1 .. n - 1
    BY <1>0, <1>2, <1>3 DEF Delivered, DeliveryOK
  <2>2. n \in 0 .. Webhooks!MaxAttempts
    BY <1>2, <1>3 DEF Webhooks!Sending
  <2>3. s \in Webhooks!Sending /\ s.pc = "record" /\ s.success = o.success /\ s.attempt = n
    BY <1>2, <1>3 DEF Webhooks!Sending
  <2> QED
    BY <2>1, <2>2, <2>3 DEF Webhooks!MaxAttempts
<1>5. sending' = [sending EXCEPT ![d] = s] /\ tried' = [tried EXCEPT ![d] = @ \cup {n}]
      /\ UNCHANGED <<hooks, secrets, asks, shown, mixed, edits, rows, errors>>
  BY <1>1, <1>2 DEF Webhooks!Post, Webhooks!adminVars, Webhooks!secretVars
<1>6. /\ tried \in [Webhooks!Deliveries -> SUBSET (1 .. Webhooks!MaxAttempts)]
      /\ accepted \in [Webhooks!Deliveries -> SUBSET (1 .. Webhooks!MaxAttempts)]
  BY <1>0 DEF Webhooks!TypeOK
<1>7. /\ tried' \in [Webhooks!Deliveries -> SUBSET (1 .. Webhooks!MaxAttempts)]
      /\ accepted' \in [Webhooks!Deliveries -> SUBSET (1 .. Webhooks!MaxAttempts)]
  BY <1>1, <1>2, <1>4, <1>5, <1>6
<1>8. sending' \in [Webhooks!Deliveries -> Webhooks!Sending] /\ sending'[d] = s
  BY <1>0, <1>4, <1>5 DEF Webhooks!TypeOK
<1>9. tried'[d] = 1 .. n /\ (s.success => n \in accepted'[d]) /\ accepted[d] \subseteq accepted'[d]
  BY <1>1, <1>2, <1>3, <1>4, <1>5, <1>6 DEF Webhooks!MaxAttempts
<1>10. Delivered(d)'
  <2>1. \A r \in rows[d] : r.attempt \in tried'[d] /\ ~r.success
    BY <1>0, <1>3, <1>5, <1>6 DEF Delivered, DeliveryOK
  <2> QED
    BY <2>1, <1>4, <1>5, <1>8, <1>9 DEF Delivered, DeliveryOK
<1>11. OneMoves(d, s)
  BY <1>1, <1>5, <1>6 DEF OneMoves
<1> QED
  BY <1>0, <1>5, <1>7, <1>8, <1>10, <1>11, OthersTold, ServiceStep DEF Webhooks!TypeOK

\* The copy's URL is no good.
LEMMA GiveUpStep == ASSUME DeliveryInv, NEW d \in Webhooks!Deliveries, Webhooks!GiveUp(d)
  PROVE DeliveryInv'
<1>0. Webhooks!TypeOK /\ Delivered(d)
  BY DeliveryMeaning
<1>1. PICK s : s = [sending[d] EXCEPT !.pc = "dropped"]
  OBVIOUS
<1>2. s \in Webhooks!Sending /\ s.pc = "dropped" /\ sending' = [sending EXCEPT ![d] = s]
      /\ sending \in [Webhooks!Deliveries -> Webhooks!Sending]
      /\ UNCHANGED <<hooks, secrets, asks, shown, mixed, edits, rows, tried, accepted, errors>>
  BY <1>0, <1>1 DEF Webhooks!TypeOK, Webhooks!Sending, Webhooks!GiveUp, Webhooks!adminVars,
                    Webhooks!secretVars,
                    Webhooks!postVars
<1>3. sending' \in [Webhooks!Deliveries -> Webhooks!Sending] /\ sending'[d] = s
  BY <1>2
<1>4. Delivered(d)'
  BY <1>0, <1>2, <1>3 DEF Delivered, DeliveryOK
<1>5. OneMoves(d, s)
  BY <1>2 DEF OneMoves
<1> QED
  BY <1>0, <1>2, <1>3, <1>4, <1>5, OthersTold, ServiceStep DEF Webhooks!TypeOK

\* The attempt is recorded, or not, and the delivery ends or posts the next.
LEMMA RecordStep == ASSUME DeliveryInv, NEW d \in Webhooks!Deliveries, Webhooks!Record(d)
  PROVE DeliveryInv'
<1>0. Webhooks!TypeOK /\ Delivered(d)
  BY DeliveryMeaning
<1>1. PICK s, n, b : s = Webhooks!After(sending[d]) /\ n = sending[d].attempt
      /\ b = sending[d].success
  OBVIOUS
<1>2. sending[d] \in Webhooks!Sending /\ sending[d].pc = "record"
      /\ n \in 1 .. Webhooks!MaxAttempts /\ b \in BOOLEAN
      /\ tried[d] = 1 .. n /\ (b => n \in accepted[d])
  BY <1>0, <1>1 DEF Webhooks!TypeOK, Webhooks!Sending, Webhooks!Record, Delivered, DeliveryOK,
                    Webhooks!MaxAttempts
<1>3. /\ s \in Webhooks!Sending /\ s.success = b
      /\ \/ s.pc = "ended" /\ s.attempt = n /\ (b \/ n = Webhooks!MaxAttempts)
         \/ s.pc = "post" /\ s.attempt = n + 1 /\ ~b
  <2>1. CASE b \/ n >= Webhooks!MaxAttempts
    BY <2>1, <1>1, <1>2 DEF Webhooks!After, Webhooks!Sending, Webhooks!MaxAttempts
  <2>2. CASE ~(b \/ n >= Webhooks!MaxAttempts)
    <3>1. n + 1 \in 0 .. Webhooks!MaxAttempts
      BY <2>2, <1>2 DEF Webhooks!MaxAttempts
    <3> QED
      BY <2>2, <3>1, <1>1, <1>2 DEF Webhooks!After, Webhooks!Sending
  <2> QED
    BY <2>1, <2>2
<1>4. sending' = [sending EXCEPT ![d] = s]
      /\ UNCHANGED <<hooks, secrets, asks, shown, mixed, edits, tried, accepted>>
      /\ errors' \in Nat
      /\ rows' \in {rows, [rows EXCEPT ![d] = @ \cup {[attempt |-> n, success |-> b]}]}
  BY <1>0, <1>1 DEF Webhooks!Record, Webhooks!adminVars, Webhooks!secretVars, Webhooks!postVars,
                    Webhooks!TypeOK
<1>5. rows \in [Webhooks!Deliveries -> SUBSET [attempt : 1 .. Webhooks!MaxAttempts, success : BOOLEAN]]
      /\ [attempt |-> n, success |-> b] \in [attempt : 1 .. Webhooks!MaxAttempts, success : BOOLEAN]
  BY <1>0, <1>2 DEF Webhooks!TypeOK
<1>6. rows' \in [Webhooks!Deliveries -> SUBSET [attempt : 1 .. Webhooks!MaxAttempts, success : BOOLEAN]]
  BY <1>4, <1>5
<1>7. sending' \in [Webhooks!Deliveries -> Webhooks!Sending] /\ sending'[d] = s
  BY <1>0, <1>3, <1>4 DEF Webhooks!TypeOK
<1>8. \A r \in rows'[d] : r \in rows[d] \/ r = [attempt |-> n, success |-> b]
  BY <1>4, <1>5
<1>9. Delivered(d)'
  <2>1. \A r \in rows[d] : r.attempt \in tried[d] /\ ~r.success
    BY <1>0, <1>2 DEF Delivered, DeliveryOK
  <2>2. \A r \in rows'[d] :
          /\ r.attempt \in tried[d]
          /\ r.success => b /\ r.attempt = n
    BY <2>1, <1>2, <1>8
  <2>3. \A m \in tried[d] : m <= n
    BY <1>2
  <2>4. CASE s.pc = "ended"
    BY <2>2, <2>3, <2>4, <1>2, <1>3, <1>4, <1>7 DEF Delivered, DeliveryOK
  <2>5. CASE s.pc = "post"
    <3>1. s.attempt - 1 = n /\ s.attempt >= 1 /\ ~b
      BY <2>5, <1>2, <1>3
    <3> QED
      BY <2>2, <2>5, <3>1, <1>2, <1>4, <1>7 DEF Delivered, DeliveryOK
  <2> QED
    BY <2>4, <2>5, <1>3
<1>10. OneMoves(d, s)
  BY <1>4, <1>5 DEF OneMoves
<1> QED
  BY <1>0, <1>4, <1>6, <1>7, <1>9, <1>10, OthersTold, ServiceStep DEF Webhooks!TypeOK

\* What was under way is lost, and with it nothing that is told.
LEMMA RestartStep == ASSUME DeliveryInv, Webhooks!Restart PROVE DeliveryInv'
<1>0. Webhooks!TypeOK /\ SecretInv /\ \A d \in Webhooks!Deliveries : Delivered(d)
  BY DeliveryMeaning
<1>1. UNCHANGED <<hooks, secrets, shown, rows, tried, accepted>> /\ errors' \in Nat
      /\ asks' = [n \in 1 .. MaxSecrets |->
           IF asks[n].pc \in {"found", "stored"} THEN Webhooks!AskDone ELSE asks[n]]
      /\ mixed' = mixed \cup {h \in Hooks : StoredFor(asks, h) # {}}
  BY <1>0 DEF Webhooks!Restart, Webhooks!postVars, Webhooks!TypeOK, Webhooks!Unanswered,
                    StoredFor
<1>2. edits' \in [Editors -> Webhooks!Edit]
  BY <1>0 DEF Webhooks!Restart, Webhooks!TypeOK, Webhooks!Edit
<1>3. /\ sending' \in [Webhooks!Deliveries -> Webhooks!Sending]
      /\ \A d \in Webhooks!Deliveries : sending'[d] = sending[d] \/ sending'[d].pc = "lost"
  <2>1. [Webhooks!Idle EXCEPT !.pc = "lost"] \in Webhooks!Sending
        /\ [Webhooks!Idle EXCEPT !.pc = "lost"].pc = "lost"
    BY IdleEnds
  <2>2. sending \in [Webhooks!Deliveries -> Webhooks!Sending]
    BY <1>0 DEF Webhooks!TypeOK
  <2> QED
    BY <2>1, <2>2 DEF Webhooks!Restart
<1>4. ASSUME NEW d \in Webhooks!Deliveries PROVE Delivered(d)'
  <2>1. CASE sending'[d] = sending[d]
    BY <2>1, <1>0, <1>1, ToldStays
  <2>2. CASE sending'[d].pc = "lost"
    BY <2>2, <1>0, <1>1 DEF Delivered, DeliveryOK
  <2> QED
    BY <2>1, <2>2, <1>3
<1>5. asks' \in [1 .. MaxSecrets -> Webhooks!Ask] /\ mixed' \subseteq Hooks
  BY <1>0, <1>1 DEF Webhooks!TypeOK, Webhooks!Ask
<1>6. \A h : StoredFor(asks', h) = {}
  BY <1>1 DEF StoredFor, Webhooks!AskDone
<1>7. SecretInv'
  <2>1. ASSUME NEW h \in Hooks PROVE SecretOf(h)'
    BY <1>0, <1>1, <1>6 DEF SecretInv, SecretOf, Webhooks!Live
  <2>2. ASSUME NEW n \in 1 .. MaxSecrets PROVE AskOK(n)'
    <3>1. AskOK(n) /\ asks'[n] \in {asks[n], Webhooks!AskDone}
      BY <1>0, <1>1 DEF SecretInv
    <3>2. asks[n].pc \in {"found", "stored"} => asks[n] # Webhooks!NoAsk
      BY DEF Webhooks!NoAsk
    <3> QED
      BY <1>1, <3>1, <3>2 DEF AskOK, Webhooks!AskDone, Webhooks!NoAsk
  <2> QED
    BY <2>1, <2>2 DEF SecretInv
<1> QED
  BY <1>0, <1>1, <1>2, <1>3, <1>4, <1>5, <1>7 DEF DeliveryInv, Webhooks!TypeOK,
     Webhooks!EndedMeansDeliveredOrExhausted, Webhooks!LogAgreesWithReceiver, Delivered

\* Every step keeps the invariant.
LEMMA DeliveryStep ==
  MaxSecrets \in Nat /\ DeliveryInv /\ [Webhooks!Next]_Webhooks!vars => DeliveryInv'
<1> SUFFICES ASSUME MaxSecrets \in Nat, DeliveryInv, [Webhooks!Next]_Webhooks!vars PROVE DeliveryInv'
  OBVIOUS
<1>1. CASE UNCHANGED Webhooks!vars
  BY <1>1 DEF Webhooks!vars, Webhooks!adminVars, Webhooks!secretVars, Webhooks!postVars,
              DeliveryInv, Webhooks!TypeOK, SecretInv, SecretOf, AskOK, Webhooks!Live,
              StoredFor,
              Webhooks!EndedMeansDeliveredOrExhausted, Webhooks!LogAgreesWithReceiver, DeliveryOK
<1> QED
  BY <1>1, AsksKeepSecrets, RequestsKeepSecrets, FireStep, PostStep, GiveUpStep, RecordStep,
     RestartStep DEF Webhooks!Next, Webhooks!Deliver

\* Every variable stays in its type, for any number of webhooks, events and requests; no
\* delivery makes a fourth attempt (webhook.service.go 76-104).
THEOREM DeliveryTypes == ASSUME MaxFaults \in Nat, MaxSecrets \in Nat PROVE Webhooks!Spec
  => []Webhooks!TypeOK
<1>1. DeliveryInv => Webhooks!TypeOK
  BY DEF DeliveryInv
<1>2. MaxFaults \in Nat /\ MaxSecrets \in Nat
  OBVIOUS
<1>3. DeliveryInv /\ [Webhooks!Next]_Webhooks!vars => DeliveryInv'
  BY <1>2, DeliveryStep
<1> QED
  BY <1>1, <1>2, <1>3, InitDelivery, PTL DEF Webhooks!Spec

\* However secrets are regenerated while PUT requests are under way, fail or are cut off, the
\* row has the secret the owner was shown last, once the secrets stored are answered and
\* unless answers were lost or overlapped (webhook_repo.go 84-94).
THEOREM SecretsKept == ASSUME MaxFaults \in Nat, MaxSecrets \in Nat PROVE Webhooks!Spec
  => []Webhooks!ShownSecretIsStored
<1>1. DeliveryInv => Webhooks!ShownSecretIsStored
  BY DEF DeliveryInv, SecretInv, SecretOf, StoredFor, Webhooks!ShownSecretIsStored,
         Webhooks!Unanswered
<1>2. MaxFaults \in Nat /\ MaxSecrets \in Nat
  OBVIOUS
<1>3. DeliveryInv /\ [Webhooks!Next]_Webhooks!vars => DeliveryInv'
  BY <1>2, DeliveryStep
<1> QED
  BY <1>1, <1>2, <1>3, InitDelivery, PTL DEF Webhooks!Spec

\* A delivery that ended was a success, as far as the service saw, or was posted three times
\* (webhook.service.go 76-104).
THEOREM DeliveriesEnd == ASSUME MaxFaults \in Nat, MaxSecrets \in Nat PROVE Webhooks!Spec
  => []Webhooks!EndedMeansDeliveredOrExhausted
<1>1. DeliveryInv => Webhooks!EndedMeansDeliveredOrExhausted
  BY DEF DeliveryInv
<1>2. MaxFaults \in Nat /\ MaxSecrets \in Nat
  OBVIOUS
<1>3. DeliveryInv /\ [Webhooks!Next]_Webhooks!vars => DeliveryInv'
  BY <1>2, DeliveryStep
<1> QED
  BY <1>1, <1>2, <1>3, InitDelivery, PTL DEF Webhooks!Spec

\* Through lost answers, lost records, deletes and restarts, the log claims no success that
\* the receiver did not accept, nor one before the last attempt (webhook.service.go 106-170).
THEOREM LogIsTrue == ASSUME MaxFaults \in Nat, MaxSecrets \in Nat PROVE Webhooks!Spec
  => []Webhooks!LogAgreesWithReceiver
<1>1. DeliveryInv => Webhooks!LogAgreesWithReceiver
  BY DEF DeliveryInv
<1>2. MaxFaults \in Nat /\ MaxSecrets \in Nat
  OBVIOUS
<1>3. DeliveryInv /\ [Webhooks!Next]_Webhooks!vars => DeliveryInv'
  BY <1>2, DeliveryStep
<1> QED
  BY <1>1, <1>2, <1>3, InitDelivery, PTL DEF Webhooks!Spec

\* The secret a webhook's events are signed with is the one its owner was shown last
\* (webhook_repo.go 84-94), for any number of requests in any order: unless the last secret
\* was stored before an earlier one was answered, or its own answer is due or was lost.
THEOREM SecretsStay == BackgroundSpec => []ShownSecretIsStored
<1>1. MaxFaults \in Nat /\ MaxSecrets \in Nat
  BY LimiterAssumption, SecretsAssumption DEF LimiterAssumption, SecretsAssumption
<1>2. Webhooks!Spec => []Webhooks!ShownSecretIsStored
  BY <1>1, SecretsKept
<1>3. Webhooks!ShownSecretIsStored => ShownSecretIsStored
  BY DEF ShownSecretIsStored
<1> QED
  BY <1>2, <1>3, WebhooksRun, PTL

\* A delivery ends with a success or after three attempts, and the log says of none that it
\* succeeded unless the receiver accepted it (webhook.service.go 76-170).
THEOREM DeliveriesTold == BackgroundSpec => []DeliveriesAreTold
<1>1. MaxFaults \in Nat /\ MaxSecrets \in Nat
  BY LimiterAssumption, SecretsAssumption DEF LimiterAssumption, SecretsAssumption
<1>2. Webhooks!Spec => []Webhooks!EndedMeansDeliveredOrExhausted
  BY <1>1, DeliveriesEnd
<1>3. Webhooks!Spec => []Webhooks!LogAgreesWithReceiver
  BY <1>1, LogIsTrue
<1>4. Webhooks!EndedMeansDeliveredOrExhausted /\ Webhooks!LogAgreesWithReceiver => DeliveriesAreTold
  BY DEF DeliveriesAreTold
<1> QED
  BY <1>2, <1>3, <1>4, WebhooksRun, PTL

----------------------------------------------------------------------------
(* The types of ffmpeg and its reader *)

Bytes == {"x", "t", "r", "n"}

\* The bytes in the pipe, in the buffer and in the lines kept are bytes of the output.
EncoderInv ==
  /\ Encoder!TypeOK
  /\ output \in Seq(Bytes) /\ pipe \in Seq(Bytes)
  /\ reader \in [pc : {"scan", "eof", "stopped", "ended"}, buf : Seq(Bytes),
                 tail : Seq(Seq(Bytes)), reports : Nat]

\* A set of positions has a first one.
LEMMA FirstOf ==
  ASSUME NEW n \in Nat, NEW T \in SUBSET (1 .. n), T # {}
  PROVE  \E x \in T : \A y \in T : x <= y
<1>1. T \subseteq Nat
  OBVIOUS
<1>2. PICK x \in T : \A y \in T : ~(<<y, x>> \in OpToRel(<, Nat))
  BY <1>1, NatLessThanWellFounded, WFMin
<1>3. \A y \in T : x \in Nat /\ y \in Nat
  OBVIOUS
<1>4. \A y \in T : ~(y < x)
  BY <1>2, <1>3 DEF OpToRel
<1> QED
  BY <1>3, <1>4

\* The split function goes on within its data, and its token is a piece of them
\* (progress.go 15-50).
LEMMA SplitsWithin ==
  ASSUME NEW data \in Seq(Bytes), data # <<>>, NEW eof \in BOOLEAN
  PROVE  /\ Encoder!scanCRLF(data, eof).advance \in 0 .. Len(data)
         /\ Encoder!scanCRLF(data, eof).token \in Seq(Bytes)
<1> DEFINE ends == {i \in 1 .. Len(data) : data[i] \in Encoder!Ends}
           first == CHOOSE i \in ends : \A j \in ends : i <= j
           both == data[first] = "r" /\ first < Len(data) /\ data[first + 1] = "n"
<1>0. Len(data) \in Nat /\ <<>> \in Seq(Bytes)
  OBVIOUS
<1>1. CASE ends = {}
  BY <1>0, <1>1 DEF Encoder!scanCRLF, Encoder!NoToken
<1>2. CASE ends # {} /\ data[first] = "r" /\ first = Len(data) /\ ~eof
  BY <1>0, <1>2 DEF Encoder!scanCRLF, Encoder!NoToken
<1>3. CASE ends # {} /\ ~(data[first] = "r" /\ first = Len(data) /\ ~eof)
  <2>1. first \in 1 .. Len(data)
    <3>1. ends \in SUBSET (1 .. Len(data))
      OBVIOUS
    <3> HIDE DEF ends
    <3>2. \E x \in ends : \A y \in ends : x <= y
      BY <3>1, <1>0, <1>3, FirstOf
    <3> QED
      BY <3>1, <3>2
  <2>2. Encoder!scanCRLF(data, eof) =
          [advance |-> IF both THEN first + 1 ELSE first, token |-> SubSeq(data, 1, first - 1)]
    BY <1>3 DEF Encoder!scanCRLF
  <2> HIDE DEF first, ends
  <2>3. (IF both THEN first + 1 ELSE first) \in 0 .. Len(data)
    BY <1>0, <2>1
  <2>4. SubSeq(data, 1, first - 1) \in Seq(Bytes)
    <3>1. \A i \in 1 .. first - 1 : i \in 1 .. Len(data)
      BY <1>0, <2>1
    <3> QED
      BY <1>0, <2>1, <3>1, SubSeqProperties
  <2> HIDE DEF both
  <2> QED
    BY <2>2, <2>3, <2>4
<1> QED
  BY <1>1, <1>2, <1>3

\* At the start nothing was written.
LEMMA InitEncoder == BackgroundInit => EncoderInv
<1> SUFFICES ASSUME BackgroundInit PROVE EncoderInv
  OBVIOUS
<1>1. output \in Texts /\ Encoder!Init
  BY DEF BackgroundInit, Encoder!Init
<1>2. output \in Seq(Bytes) /\ Len(output) \in Nat
  <2>1. PICK n \in 0 .. MaxOutput : output \in [1 .. n -> Bytes]
    BY <1>1 DEF Texts, Bytes
  <2> QED
    BY <2>1, EncoderAssumption DEF EncoderAssumption
<1>3. Len(<<>>) = 0 /\ <<>> \in Seq(Bytes) /\ <<>> \in Seq(Seq(Bytes))
  OBVIOUS
<1>4. PipeSize \in Nat /\ MaxToken \in Nat /\ TailSize \in Nat
  BY EncoderAssumption DEF EncoderAssumption
<1>5. Encoder!TypeOK
  BY <1>1, <1>2, <1>3, <1>4 DEF Encoder!Init, Encoder!TypeOK
<1> QED
  BY <1>1, <1>2, <1>3, <1>5 DEF Encoder!Init, EncoderInv

\* A read moves bytes from the pipe to the buffer.
LEMMA ReadEncoder == ASSUME EncoderInv, Encoder!Read PROVE EncoderInv'
<1>0. /\ pipe \in Seq(Bytes) /\ Len(pipe) \in Nat /\ Len(pipe) <= PipeSize /\ PipeSize \in Nat
      /\ reader \in [pc : {"scan", "eof", "stopped", "ended"}, buf : Seq(Bytes),
                     tail : Seq(Seq(Bytes)), reports : Nat]
      /\ UNCHANGED <<output, proc, lines, run>>
      /\ Len(reader.buf) <= MaxToken
  BY EncoderAssumption DEF EncoderInv, Encoder!TypeOK, Encoder!Read, EncoderAssumption
<1>1. CASE reader' = [reader EXCEPT !.pc = "eof"] /\ UNCHANGED pipe
  BY <1>0, <1>1 DEF EncoderInv, Encoder!TypeOK
<1>2. ASSUME NEW n \in 1 .. Len(pipe), Len(reader.buf) + n <= MaxToken,
             reader' = [reader EXCEPT !.buf = reader.buf \o SubSeq(pipe, 1, n)],
             pipe' = SubSeq(pipe, n + 1, Len(pipe))
      PROVE  EncoderInv'
  <2>1. \A i \in 1 .. n : i \in 1 .. Len(pipe)
    BY <1>0
  <2>2. SubSeq(pipe, 1, n) \in Seq(Bytes) /\ Len(SubSeq(pipe, 1, n)) = n
    BY <1>0, <2>1, SubSeqProperties
  <2>3. \A i \in (n + 1) .. Len(pipe) : i \in 1 .. Len(pipe)
    BY <1>0
  <2>4. pipe' \in Seq(Bytes) /\ Len(pipe') = IF n + 1 <= Len(pipe) THEN Len(pipe) - (n + 1) + 1 ELSE 0
    BY <1>0, <1>2, <2>3, SubSeqProperties
  <2>5. Len(pipe') <= PipeSize
    BY <1>0, <2>4
  <2>6. PICK b : b = reader.buf \o SubSeq(pipe, 1, n)
    OBVIOUS
  <2>7. b \in Seq(Bytes) /\ Len(b) = Len(reader.buf) + n
    BY <1>0, <2>2, <2>6, ConcatProperties
  <2>8. reader' = [reader EXCEPT !.buf = b]
    BY <1>2, <2>6
  <2>9. /\ reader' \in [pc : {"scan", "eof", "stopped", "ended"}, buf : Seq(Bytes),
                        tail : Seq(Seq(Bytes)), reports : Nat]
        /\ Len(reader'.buf) <= MaxToken /\ reader'.tail = reader.tail
    BY <1>0, <1>2, <2>7, <2>8
  <2> QED
    BY <1>0, <2>4, <2>5, <2>9 DEF EncoderInv, Encoder!TypeOK
<1> QED
  BY <1>1, <1>2 DEF Encoder!Read

\* A line leaves the buffer and may come to the lines kept.
LEMMA ScanEncoder == ASSUME EncoderInv, Encoder!Scan PROVE EncoderInv'
<1>0. /\ reader \in [pc : {"scan", "eof", "stopped", "ended"}, buf : Seq(Bytes),
                     tail : Seq(Seq(Bytes)), reports : Nat]
      /\ UNCHANGED <<output, proc, pipe, run>>
      /\ Len(reader.buf) <= MaxToken /\ Len(reader.tail) <= TailSize
      /\ MaxToken \in Nat /\ TailSize \in Nat \ {0}
  BY EncoderAssumption DEF EncoderInv, Encoder!TypeOK, Encoder!Scan, EncoderAssumption
<1>1. PICK a, t : a = Encoder!Split.advance /\ t = Encoder!Split.token
  OBVIOUS
<1>2. reader.buf # <<>> /\ a \in 1 .. Len(reader.buf) /\ t \in Seq(Bytes)
  <2>1. Encoder!Split.advance > 0
    BY DEF Encoder!Scan
  <2>2. reader.buf # <<>>
    BY <2>1 DEF Encoder!Split, Encoder!NoToken
  <2>3. Encoder!Split = Encoder!scanCRLF(reader.buf, reader.pc = "eof")
    BY <2>2 DEF Encoder!Split
  <2>4. PICK eof \in BOOLEAN : eof = (reader.pc = "eof")
    OBVIOUS
  <2>5. a \in 0 .. Len(reader.buf) /\ t \in Seq(Bytes)
    BY <1>0, <1>1, <2>2, <2>3, <2>4, SplitsWithin
  <2> QED
    BY <1>0, <1>1, <2>1, <2>2, <2>5
<1>3. PICK b : b = SubSeq(reader.buf, a + 1, Len(reader.buf))
  OBVIOUS
<1>4. b \in Seq(Bytes) /\ Len(b) <= MaxToken
  <2>1. Len(reader.buf) \in Nat
    BY <1>0
  <2>2. \A i \in (a + 1) .. Len(reader.buf) : i \in 1 .. Len(reader.buf)
    BY <1>2, <2>1
  <2>3. b \in Seq(Bytes) /\ Len(b) = IF a + 1 <= Len(reader.buf) THEN Len(reader.buf) - (a + 1) + 1 ELSE 0
    BY <1>0, <1>2, <1>3, <2>1, <2>2, SubSeqProperties
  <2> QED
    BY <1>0, <1>2, <2>1, <2>3
<1>5. PICK r : r = [reader EXCEPT !.buf = b]
  OBVIOUS
<1>6. /\ r \in [pc : {"scan", "eof", "stopped", "ended"}, buf : Seq(Bytes),
                tail : Seq(Seq(Bytes)), reports : Nat]
      /\ r.tail = reader.tail /\ r.buf = b
  BY <1>0, <1>4, <1>5
<1>7. reader' = Encoder!Taken(r, t)
  BY <1>1, <1>3, <1>5 DEF Encoder!Scan
<1>8. /\ reader' \in [pc : {"scan", "eof", "stopped", "ended"}, buf : Seq(Bytes),
                      tail : Seq(Seq(Bytes)), reports : Nat]
      /\ Len(reader'.buf) <= MaxToken /\ Len(reader'.tail) <= TailSize
  <2>1. CASE reader' = r
    BY <2>1, <1>0, <1>4, <1>6
  <2>2. CASE reader' = [r EXCEPT !.reports = @ + 1]
    <3>1. PICK n \in Nat : n = r.reports
      BY <1>6
    <3>2. n + 1 \in Nat /\ reader' = [r EXCEPT !.reports = n + 1]
      BY <2>2, <3>1
    <3>3. reader'.tail = reader.tail /\ reader'.buf = b
      BY <1>6, <3>2
    <3>4. reader' \in [pc : {"scan", "eof", "stopped", "ended"}, buf : Seq(Bytes),
                      tail : Seq(Seq(Bytes)), reports : Nat]
      BY <1>6, <3>2
    <3> QED
      BY <1>0, <1>4, <3>3, <3>4
  <2>3. CASE reader' = [r EXCEPT !.tail = IF Len(@) >= TailSize THEN Append(Tail(@), t) ELSE Append(@, t)]
    <3>1. PICK u : u = IF Len(reader.tail) >= TailSize THEN Append(Tail(reader.tail), t)
                       ELSE Append(reader.tail, t)
      OBVIOUS
    <3>2. u \in Seq(Seq(Bytes)) /\ Len(u) <= TailSize
      <4>1. Len(reader.tail) \in Nat /\ reader.tail \in Seq(Seq(Bytes))
        BY <1>0
      <4>2. CASE Len(reader.tail) >= TailSize
        <5>1. reader.tail # <<>>
          BY <4>1, <4>2, <1>0
        <5>2. Tail(reader.tail) \in Seq(Seq(Bytes)) /\ Len(Tail(reader.tail)) = Len(reader.tail) - 1
          BY <4>1, <5>1, HeadTailProperties
        <5>3. u = Append(Tail(reader.tail), t)
          BY <3>1, <4>2
        <5> QED
          BY <5>2, <5>3, <4>1, <1>0, <1>2, AppendProperties
      <4>3. CASE Len(reader.tail) < TailSize
        <5>1. u = Append(reader.tail, t)
          BY <3>1, <4>1, <4>3, <1>0
        <5> QED
          BY <5>1, <4>1, <4>3, <1>0, <1>2, AppendProperties
      <4> QED
        BY <4>1, <4>2, <4>3, <1>0
    <3>3. reader' = [r EXCEPT !.tail = u]
      BY <2>3, <3>1, <1>6
    <3> QED
      BY <3>2, <3>3, <1>4, <1>6
  <2> QED
    BY <1>7, <2>1, <2>2, <2>3 DEF Encoder!Taken
<1> QED
  BY <1>0, <1>8 DEF EncoderInv, Encoder!TypeOK

\* Every step keeps the types of ffmpeg and its reader.
LEMMA EncoderStep == EncoderInv /\ [Encoder!Next]_Encoder!vars => EncoderInv'
<1> SUFFICES ASSUME EncoderInv, [Encoder!Next]_Encoder!vars PROVE EncoderInv'
  OBVIOUS
<1>0. Encoder!TypeOK /\ output \in Seq(Bytes) /\ Len(output) \in Nat
  BY DEF EncoderInv
<1>1. CASE UNCHANGED Encoder!vars
  BY <1>1 DEF Encoder!vars, EncoderInv, Encoder!TypeOK
<1>2. CASE Encoder!Write
  <2>1. /\ proc \in [on : BOOLEAN, written : 0 .. Len(output)] /\ proc.written < Len(output)
        /\ proc' = [proc EXCEPT !.written = @ + 1]
        /\ Len(pipe) < PipeSize /\ pipe \in Seq(Bytes) /\ PipeSize \in Nat
        /\ UNCHANGED <<output, reader, run>>
    BY <1>2, EncoderAssumption DEF EncoderInv, Encoder!TypeOK, Encoder!Write, EncoderAssumption
  <2>2. PICK n \in 0 .. Len(output) : n = proc.written
    BY <2>1
  <2>3. n + 1 \in 0 .. Len(output) /\ n + 1 \in 1 .. Len(output)
    BY <1>0, <2>1, <2>2
  <2>4. proc' \in [on : BOOLEAN, written : 0 .. Len(output)]
    BY <2>1, <2>2, <2>3
  <2>5. output[n + 1] \in Bytes /\ pipe' = Append(pipe, output[n + 1])
    BY <1>0, <1>2, <2>2, <2>3 DEF Encoder!Write
  <2>6. pipe' \in Seq(Bytes) /\ Len(pipe') = Len(pipe) + 1 /\ Len(pipe) \in Nat
    BY <2>1, <2>5, AppendProperties
  <2>7. Len(pipe') <= PipeSize
    BY <2>1, <2>6
  <2> QED
    BY <2>1, <2>4, <2>6, <2>7 DEF EncoderInv, Encoder!TypeOK
<1>3. CASE Encoder!Exit \/ Encoder!Killed
  BY <1>3 DEF Encoder!Exit, Encoder!Killed, EncoderInv, Encoder!TypeOK
<1>4. CASE Encoder!TooLong \/ Encoder!ScanEnds
  BY <1>4 DEF Encoder!TooLong, Encoder!ScanEnds, EncoderInv, Encoder!TypeOK
<1>5. CASE Encoder!StderrWait \/ Encoder!Wait
  BY <1>5 DEF Encoder!StderrWait, Encoder!Wait, EncoderInv, Encoder!TypeOK
<1> QED
  BY <1>1, <1>2, <1>3, <1>4, <1>5, ReadEncoder, ScanEncoder DEF Encoder!Next, Encoder!Reads

\* The variables of each part have the values they may have, for any constants: no limit is
\* 0, no delivery makes a fourth attempt, pipe, buffer and the lines kept stay in their
\* bounds.
THEOREM BackgroundTypes == BackgroundSpec => []TypesOK
<1>1. Spec => []TypeOK
  BY LimiterTypes
<1>2. Webhooks!Spec => []Webhooks!TypeOK
  BY LimiterAssumption, SecretsAssumption, DeliveryTypes DEF LimiterAssumption, SecretsAssumption
<1>3. BackgroundSpec => []EncoderInv
  <2>1. BackgroundSpec => BackgroundInit /\ Encoder!Spec
    BY EncoderRuns, PTL DEF BackgroundSpec
  <2> QED
    BY <2>1, InitEncoder, EncoderStep, PTL DEF Encoder!Spec
<1>4. TypeOK /\ Webhooks!TypeOK /\ EncoderInv => TypesOK
  BY DEF TypesOK, EncoderInv
<1> QED
  BY <1>1, <1>2, <1>3, <1>4, LimiterRuns, WebhooksRun, PTL

----------------------------------------------------------------------------
(* The n-th of a set of positions *)

\* The instance counts as the module it is of.
LEMMA CountsAlike == \A S : Encoder!Cardinality(S) = Cardinality(S)
BY DEF Encoder!Cardinality, Cardinality

Rank(S, i) == Cardinality(Encoder!UpTo(S, i))

\* Positions are finitely many.
LEMMA RankType ==
  ASSUME NEW N \in Nat, NEW S \in SUBSET (1 .. N), NEW i \in Nat
  PROVE  /\ IsFiniteSet(S) /\ Cardinality(S) \in Nat
         /\ IsFiniteSet(Encoder!UpTo(S, i)) /\ Rank(S, i) \in Nat /\ Rank(S, i) <= Cardinality(S)
<1>1. IsFiniteSet(1 .. N)
  BY FS_Interval
<1>2. IsFiniteSet(S)
  BY <1>1, FS_Subset
<1>3. Encoder!UpTo(S, i) \in SUBSET S
  BY DEF Encoder!UpTo
<1>4. IsFiniteSet(Encoder!UpTo(S, i)) /\ Cardinality(Encoder!UpTo(S, i)) <= Cardinality(S)
  BY <1>2, <1>3, FS_Subset
<1>5. Cardinality(S) \in Nat /\ Cardinality(Encoder!UpTo(S, i)) \in Nat
  BY <1>2, <1>4, FS_CardinalityType
<1> QED
  BY <1>2, <1>4, <1>5 DEF Rank

\* One position more is counted once.
LEMMA RankStep ==
  ASSUME NEW N \in Nat, NEW S \in SUBSET (1 .. N), NEW i \in 1 .. N
  PROVE  Rank(S, i) = IF i \in S THEN Rank(S, i - 1) + 1 ELSE Rank(S, i - 1)
<1>1. i - 1 \in Nat
  OBVIOUS
<1>2. IsFiniteSet(Encoder!UpTo(S, i - 1))
  BY <1>1, RankType
<1>3. CASE i \in S
  <2>1. \A j \in S : j <= i <=> (j <= i - 1 \/ j = i)
    OBVIOUS
  <2>2. Encoder!UpTo(S, i) = Encoder!UpTo(S, i - 1) \cup {i}
    BY <1>3, <2>1 DEF Encoder!UpTo
  <2>3. i \notin Encoder!UpTo(S, i - 1)
    BY DEF Encoder!UpTo
  <2> QED
    BY <1>2, <1>3, <2>2, <2>3, FS_AddElement DEF Rank
<1>4. CASE i \notin S
  <2>1. \A j \in S : j <= i <=> j <= i - 1
    BY <1>4
  <2>2. Encoder!UpTo(S, i) = Encoder!UpTo(S, i - 1)
    BY <2>1 DEF Encoder!UpTo
  <2> QED
    BY <1>4, <2>2 DEF Rank
<1> QED
  BY <1>3, <1>4

\* Of two elements the greater comes later.
LEMMA RankOrder ==
  ASSUME NEW N \in Nat, NEW S \in SUBSET (1 .. N), NEW i \in S, NEW k \in S, i < k
  PROVE  Rank(S, i) < Rank(S, k)
<1>1. i \in Nat /\ k \in Nat /\ \A j \in S : j \in Nat
  OBVIOUS
<1>2. IsFiniteSet(Encoder!UpTo(S, k)) /\ Rank(S, i) \in Nat /\ Rank(S, k) \in Nat
  BY <1>1, RankType
<1>3. Encoder!UpTo(S, i) \in SUBSET Encoder!UpTo(S, k) /\ k \in Encoder!UpTo(S, k) /\ k \notin Encoder!UpTo(S, i)
  <2>1. \A j \in S : (j <= i => j <= k) /\ k <= k /\ ~(k <= i)
    BY <1>1
  <2> QED
    BY <2>1, Zenon DEF Encoder!UpTo
<1>4. /\ Cardinality(Encoder!UpTo(S, i)) <= Cardinality(Encoder!UpTo(S, k))
      /\ Cardinality(Encoder!UpTo(S, k)) = Cardinality(Encoder!UpTo(S, i)) => Encoder!UpTo(S, k) = Encoder!UpTo(S, i)
  BY <1>2, <1>3, FS_Subset
<1>5. Rank(S, i) # Rank(S, k)
  BY <1>3, <1>4 DEF Rank
<1> QED
  BY <1>2, <1>4, <1>5 DEF Rank

\* There is one for every number up to that of all.
LEMMA NthThere ==
  ASSUME NEW N \in Nat, NEW S \in SUBSET (1 .. N), NEW n \in 1 .. Cardinality(S)
  PROVE  \E i \in S : Rank(S, i) = n
<1> DEFINE T == {m \in 1 .. N : Rank(S, m) >= n}
<1>0. Cardinality(S) \in Nat /\ n \in Nat /\ n >= 1 /\ IsFiniteSet(S)
  <2>1. 0 \in Nat
    OBVIOUS
  <2>2. IsFiniteSet(S) /\ Cardinality(S) \in Nat
    BY <2>1, RankType
  <2> QED
    BY <2>2
<1>a. Rank(S, 0) = 0
  <2>1. \A j \in S : ~(j <= 0)
    OBVIOUS
  <2>2. Encoder!UpTo(S, 0) = {}
    BY <2>1, Zenon DEF Encoder!UpTo
  <2> QED
    BY <2>2, FS_EmptySet DEF Rank
<1>1. N \in T
  <2>1. Encoder!UpTo(S, N) = S
    <3>1. \A j \in S : j <= N
      OBVIOUS
    <3> QED
      BY <3>1, Zenon DEF Encoder!UpTo
  <2>2. Rank(S, N) = Cardinality(S)
    BY <2>1 DEF Rank
  <2>3. N # 0
    BY <1>0, <1>a, <2>2
  <2> QED
    BY <1>0, <2>2, <2>3
<1>2. T \in SUBSET (1 .. N) /\ T # {}
  BY <1>1
<1>3. PICK x \in T : \A y \in T : x <= y
  <2> HIDE DEF T
  <2> QED
    BY <1>2, FirstOf
<1>4. x \in 1 .. N /\ Rank(S, x) >= n
  OBVIOUS
<1>5. x - 1 \in Nat /\ x \in Nat /\ Rank(S, x - 1) \in Nat /\ Rank(S, x) \in Nat
  <2>1. x - 1 \in Nat /\ x \in Nat
    BY <1>4
  <2> QED
    BY <2>1, RankType
<1>6. Rank(S, x - 1) < n
  <2>1. CASE x = 1
    BY <1>0, <1>a, <2>1
  <2>2. CASE x # 1
    <3>1. x - 1 \in 1 .. N /\ ~(x <= x - 1)
      BY <1>4, <2>2
    <3>2. x - 1 \notin T
      BY <1>3, <3>1
    <3> QED
      BY <1>0, <1>5, <3>1, <3>2
  <2> QED
    BY <2>1, <2>2
<1>7. Rank(S, x) = IF x \in S THEN Rank(S, x - 1) + 1 ELSE Rank(S, x - 1)
  BY <1>4, RankStep
<1>8. x \in S
  BY <1>0, <1>4, <1>5, <1>6, <1>7
<1>9. Rank(S, x) = n
  BY <1>0, <1>4, <1>5, <1>6, <1>7, <1>8
<1> QED
  BY <1>8, <1>9

\* And only one.
LEMMA NthIs ==
  ASSUME NEW N \in Nat, NEW S \in SUBSET (1 .. N), NEW n \in 1 .. Cardinality(S)
  PROVE  /\ Encoder!Nth(S, n) \in S /\ Rank(S, Encoder!Nth(S, n)) = n
         /\ \A i \in S : Rank(S, i) = n => i = Encoder!Nth(S, n)
<1>1. Encoder!Nth(S, n) = CHOOSE i \in S : Rank(S, i) = n
  BY CountsAlike, Zenon DEF Encoder!Nth, Rank
<1>2. Encoder!Nth(S, n) \in S /\ Rank(S, Encoder!Nth(S, n)) = n
  BY <1>1, NthThere
<1>3. ASSUME NEW i \in S, NEW k \in S, Rank(S, i) = n, Rank(S, k) = n
      PROVE  i = k
  <2>1. i \in Nat /\ k \in Nat
    OBVIOUS
  <2>2. Rank(S, i) \in Nat
    BY <2>1, RankType
  <2>3. ASSUME i < k  PROVE FALSE
    <3>1. Rank(S, i) < Rank(S, k)
      BY <2>3, RankOrder
    <3> QED
      BY <1>3, <2>2, <3>1
  <2>4. ASSUME k < i  PROVE FALSE
    <3>1. Rank(S, k) < Rank(S, i)
      BY <2>4, RankOrder
    <3> QED
      BY <1>3, <2>2, <3>1
  <2> QED
    BY <2>1, <2>3, <2>4
<1> QED
  BY <1>2, <1>3

\* The first elements are those of the set that begins it, and one after them is next.
LEMMA NthBegins ==
  ASSUME NEW N \in Nat, NEW S \in SUBSET (1 .. N), NEW c \in 0 .. N
  PROVE  /\ Cardinality(Encoder!UpTo(S, c)) \in Nat
         /\ Cardinality(Encoder!UpTo(S, c)) <= Cardinality(S) /\ Cardinality(S) \in Nat
         /\ \A n \in 1 .. Cardinality(Encoder!UpTo(S, c)) :
              /\ Encoder!Nth(Encoder!UpTo(S, c), n) \in Encoder!UpTo(S, c)
              /\ Encoder!Nth(S, n) = Encoder!Nth(Encoder!UpTo(S, c), n)
<1> PICK first : first = Encoder!UpTo(S, c)
  OBVIOUS
<1>0. first \in SUBSET (1 .. N) /\ first \in SUBSET S /\ c \in Nat
  <2>1. first \in SUBSET S
    BY Zenon DEF Encoder!UpTo
  <2>2. first \in SUBSET (1 .. N)
    BY <2>1, Zenon
  <2> QED
    BY <2>1, <2>2
<1>1. /\ IsFiniteSet(S) /\ Cardinality(S) \in Nat /\ IsFiniteSet(first) /\ Cardinality(first) \in Nat
      /\ Cardinality(first) <= Cardinality(S)
  BY <1>0, RankType DEF Rank
<1>2. ASSUME NEW n \in 1 .. Cardinality(first)
      PROVE  Encoder!Nth(first, n) \in first /\ Encoder!Nth(S, n) = Encoder!Nth(first, n)
  <2>1. PICK i : i = Encoder!Nth(first, n)
    OBVIOUS
  <2>2. i \in first /\ Rank(first, i) = n
    BY <1>0, <2>1, NthIs
  <2>3. Encoder!UpTo(first, i) = Encoder!UpTo(S, i)
    <3>1. i \in S /\ i <= c /\ \A j \in S : j \in Nat
      BY <1>0, <2>2 DEF Encoder!UpTo
    <3>2. i \in Nat /\ \A j \in S : j <= i => j <= c
      BY <1>0, <3>1
    <3> QED
      BY <3>2, Zenon DEF Encoder!UpTo
  <2>4. Rank(S, i) = n /\ i \in S
    BY <1>0, <2>2, <2>3 DEF Rank
  <2>5. n \in 1 .. Cardinality(S)
    BY <1>1
  <2> QED
    BY <2>1, <2>2, <2>4, <2>5, NthIs
<1> QED
  BY <1>1, <1>2

\* One more is the last.
LEMMA NthAfter ==
  ASSUME NEW N \in Nat, NEW S \in SUBSET (1 .. N), NEW c \in 0 .. N,
         NEW x \in S, S = Encoder!UpTo(S, c) \cup {x}, x > c
  PROVE  /\ Cardinality(S) = Cardinality(Encoder!UpTo(S, c)) + 1
         /\ Encoder!Nth(S, Cardinality(S)) = x
<1> PICK first : first = Encoder!UpTo(S, c)
  OBVIOUS
<1>0. first \in SUBSET (1 .. N) /\ first \in SUBSET S /\ c \in Nat /\ S = first \cup {x}
  <2>1. first \in SUBSET S
    BY Zenon DEF Encoder!UpTo
  <2>2. first \in SUBSET (1 .. N)
    BY <2>1, Zenon
  <2> QED
    BY <2>1, <2>2
<1>a. /\ IsFiniteSet(S) /\ Cardinality(S) \in Nat /\ IsFiniteSet(first) /\ Cardinality(first) \in Nat
      /\ Cardinality(first) <= Cardinality(S)
  BY <1>0, RankType DEF Rank
<1>1. x \notin first /\ x \in Nat
  BY <1>0 DEF Encoder!UpTo
<1>2. Cardinality(S) = Cardinality(first) + 1
  BY <1>0, <1>1, <1>a, FS_AddElement
<1>3. Encoder!UpTo(S, x) = S
  <2>1. \A j \in first : j <= c /\ j \in Nat
    BY <1>0 DEF Encoder!UpTo
  <2>2. \A j \in S : j <= x
    BY <1>0, <1>1, <2>1
  <2> QED
    BY <2>2, Zenon DEF Encoder!UpTo
<1>4. Rank(S, x) = Cardinality(S)
  BY <1>3 DEF Rank
<1>5. Cardinality(S) \in 1 .. Cardinality(S)
  BY <1>2, <1>a
<1> QED
  BY <1>2, <1>4, <1>5, NthIs

----------------------------------------------------------------------------
(* The lines of a text and of what begins it *)

IsEnd(text, i, j) ==
  /\ j \in i .. Len(text) /\ \A k \in i .. j : text[k] \notin Encoder!Ends
  /\ j < Len(text) => text[j + 1] \in Encoder!Ends

\* A line has one end.
LEMMA EndIs ==
  ASSUME NEW text \in Seq(Bytes), NEW i \in 1 .. Len(text), text[i] \notin Encoder!Ends
  PROVE  /\ IsEnd(text, i, Encoder!LineEnd(text, i))
         /\ \A j : IsEnd(text, i, j) => j = Encoder!LineEnd(text, i)
<1>0. Len(text) \in Nat /\ i \in Nat
  OBVIOUS
<1>1. \E j : IsEnd(text, i, j)
  <2> DEFINE T == {k \in 1 .. Len(text) : k > i /\ text[k] \in Encoder!Ends}
  <2>1. CASE T = {}
    <3>1. \A k \in i .. Len(text) : text[k] \notin Encoder!Ends
      <4> SUFFICES ASSUME NEW k \in i .. Len(text), k # i  PROVE text[k] \notin Encoder!Ends
        OBVIOUS
      <4>1. k \in 1 .. Len(text) /\ k > i
        BY <1>0
      <4> QED
        BY <2>1, <4>1
    <3>2. IsEnd(text, i, Len(text))
      BY <1>0, <3>1 DEF IsEnd
    <3> QED
      BY <3>2
  <2>2. CASE T # {}
    <3>1. PICK x \in T : \A y \in T : x <= y
      <4>1. T \in SUBSET (1 .. Len(text))
        OBVIOUS
      <4> HIDE DEF T
      <4> QED
        BY <1>0, <2>2, <4>1, FirstOf
    <3>2. x \in 1 .. Len(text) /\ x > i /\ text[x] \in Encoder!Ends
      OBVIOUS
    <3>3. x - 1 \in i .. Len(text) /\ x - 1 < Len(text) /\ (x - 1) + 1 = x
      BY <1>0, <3>2
    <3>4. ASSUME NEW k \in i .. (x - 1)  PROVE text[k] \notin Encoder!Ends
      <4>1. k = i \/ (k > i /\ k \in 1 .. Len(text) /\ ~(x <= k))
        BY <1>0, <3>2
      <4>2. k \notin T \/ k = i
        BY <3>1, <4>1
      <4> QED
        BY <4>1, <4>2
    <3>5. IsEnd(text, i, x - 1)
      BY <3>2, <3>3, <3>4 DEF IsEnd
    <3> QED
      BY <3>5
  <2> QED
    BY <2>1, <2>2
<1>2. Encoder!LineEnd(text, i) = CHOOSE j \in i .. Len(text) : IsEnd(text, i, j)
  <2>1. \A j \in i .. Len(text) : IsEnd(text, i, j) <=>
          (\A k \in i .. j : text[k] \notin Encoder!Ends) /\ (j < Len(text) => text[j + 1] \in Encoder!Ends)
    BY DEF IsEnd
  <2> QED
    BY <2>1, Zenon DEF Encoder!LineEnd
<1>3. IsEnd(text, i, Encoder!LineEnd(text, i))
  <2>1. \A j : IsEnd(text, i, j) => j \in i .. Len(text)
    BY DEF IsEnd
  <2> QED
    BY <1>1, <1>2, <2>1
<1>4. ASSUME NEW j, NEW k, IsEnd(text, i, j), IsEnd(text, i, k)  PROVE ~(j < k)
  <2>1. j \in i .. Len(text) /\ k \in i .. Len(text)
    BY <1>4 DEF IsEnd
  <2>2. j < k => j + 1 \in i .. k /\ j < Len(text)
    BY <1>0, <2>1
  <2> QED
    BY <1>4, <2>2 DEF IsEnd
<1>5. ASSUME NEW j, NEW k, IsEnd(text, i, j), IsEnd(text, i, k)  PROVE j = k
  <2>1. j \in i .. Len(text) /\ k \in i .. Len(text)
    BY <1>5 DEF IsEnd
  <2>2. ~(j < k) /\ ~(k < j)
    BY <1>4, <1>5
  <2> QED
    BY <1>0, <2>1, <2>2
<1> QED
  BY <1>3, <1>5

\* What begins a text.
LEMMA BeginningIs ==
  ASSUME NEW text \in Seq(Bytes), NEW c \in 0 .. Len(text), NEW p, p = SubSeq(text, 1, c)
  PROVE  p \in Seq(Bytes) /\ Len(p) = c /\ \A i \in 1 .. c : p[i] = text[i]
<1>0. Len(text) \in Nat /\ c \in Int /\ 1 \in Int
  OBVIOUS
<1>1. \A i \in 1 .. c : i \in 1 .. Len(text) /\ text[i] \in Bytes
  BY <1>0
<1>2. p \in Seq(Bytes) /\ Len(p) = (IF 1 <= c THEN c - 1 + 1 ELSE 0) /\ \A i \in 1 .. c - 1 + 1 : p[i] = text[1 + i - 1]
  BY <1>0, <1>1, SubSeqProperties
<1>3. Len(p) = c
  BY <1>0, <1>2
<1>4. ASSUME NEW i \in 1 .. c  PROVE p[i] = text[i]
  <2>1. i \in 1 .. c - 1 + 1 /\ 1 + i - 1 = i
    BY <1>0
  <2> QED
    BY <1>2, <2>1
<1> QED
  BY <1>2, <1>3, <1>4

\* Its lines start where the text's do, and those that have ended end there.
LEMMA LinesStart ==
  ASSUME NEW text \in Seq(Bytes), NEW c \in 0 .. Len(text), NEW p, p = SubSeq(text, 1, c)
  PROVE  /\ Encoder!Starts(p) = Encoder!UpTo(Encoder!Starts(text), c)
         /\ Encoder!Starts(text) \in SUBSET (1 .. Len(text))
         /\ c = 0 \/ c = Len(text) \/ text[c] \in Encoder!Ends =>
              \A i \in Encoder!Starts(p) :
                /\ Encoder!LineEnd(p, i) = Encoder!LineEnd(text, i)
                /\ i \in 1 .. c /\ Encoder!LineEnd(p, i) \in i .. c
<1>0. Len(text) \in Nat /\ c \in Nat /\ p \in Seq(Bytes) /\ Len(p) = c /\ \A i \in 1 .. c : p[i] = text[i]
  BY BeginningIs
<1>1. ASSUME NEW i \in 1 .. c
      PROVE  /\ i \in 1 .. Len(text) /\ i <= c /\ p[i] = text[i]
             /\ i > 1 => p[i - 1] = text[i - 1]
  <2>1. i > 1 => i - 1 \in 1 .. c
    BY <1>0
  <2> QED
    BY <1>0, <2>1
<1>2. \A i \in 1 .. Len(text) : i <= c <=> i \in 1 .. c
  BY <1>0
<1>3. Encoder!Starts(text) \in SUBSET (1 .. Len(text))
  BY Zenon DEF Encoder!Starts
<1>4. Encoder!Starts(p) = Encoder!UpTo(Encoder!Starts(text), c)
  <2>1. ASSUME NEW i \in Encoder!Starts(p)  PROVE i \in Encoder!UpTo(Encoder!Starts(text), c)
    BY <1>0, <1>1, <2>1 DEF Encoder!Starts, Encoder!UpTo
  <2>2. ASSUME NEW i \in Encoder!UpTo(Encoder!Starts(text), c)  PROVE i \in Encoder!Starts(p)
    BY <1>0, <1>1, <1>2, <2>2 DEF Encoder!Starts, Encoder!UpTo
  <2> QED
    BY <2>1, <2>2, Zenon
<1>5. ASSUME c = 0 \/ c = Len(text) \/ text[c] \in Encoder!Ends, NEW i \in Encoder!Starts(p)
      PROVE  /\ Encoder!LineEnd(p, i) = Encoder!LineEnd(text, i)
             /\ i \in 1 .. c /\ Encoder!LineEnd(p, i) \in i .. c
  <2>1. i \in 1 .. c /\ p[i] \notin Encoder!Ends
    BY <1>0, <1>5 DEF Encoder!Starts
  <2>2. PICK j : j = Encoder!LineEnd(p, i)
    OBVIOUS
  <2>3. IsEnd(p, i, j)
    BY <1>0, <2>1, <2>2, EndIs
  <2>4. j \in i .. c /\ j \in 1 .. c
    BY <1>0, <2>1, <2>3 DEF IsEnd
  <2>5. \A k \in i .. j : k \in 1 .. c /\ text[k] \notin Encoder!Ends
    BY <1>0, <2>1, <2>3, <2>4 DEF IsEnd
  <2>6. j < Len(text) => text[j + 1] \in Encoder!Ends
    <3>1. CASE j < c
      <4>1. j + 1 \in 1 .. c
        BY <1>0, <2>4, <3>1
      <4> QED
        BY <1>0, <2>3, <3>1, <4>1 DEF IsEnd
    <3>2. CASE j = c
      <4>1. text[c] \notin Encoder!Ends /\ c # 0
        BY <2>1, <2>4, <2>5, <3>2
      <4> QED
        BY <1>0, <1>5, <3>2, <4>1
    <3> QED
      BY <1>0, <2>4, <3>1, <3>2
  <2>7. IsEnd(text, i, j) /\ i \in 1 .. Len(text) /\ text[i] \notin Encoder!Ends
    BY <1>0, <1>1, <2>1, <2>4, <2>5, <2>6 DEF IsEnd
  <2> QED
    BY <2>1, <2>2, <2>4, <2>7, EndIs
<1> QED
  BY <1>3, <1>4, <1>5

Count(text) == Cardinality(Encoder!Starts(text))
Line(text, i) == SubSeq(text, i, Encoder!LineEnd(text, i))
Kept(text, c) == c = 0 \/ c = Len(text) \/ text[c] \in Encoder!Ends

\* The lines of a text are pieces of it.
LEMMA LinesAre ==
  ASSUME NEW text \in Seq(Bytes)
  PROVE  /\ Count(text) \in Nat /\ Encoder!LinesOf(text) \in Seq(Seq(Bytes))
         /\ Len(Encoder!LinesOf(text)) = Count(text)
         /\ \A n \in 1 .. Count(text) :
              /\ Encoder!Nth(Encoder!Starts(text), n) \in Encoder!Starts(text)
              /\ Encoder!LinesOf(text)[n] = Line(text, Encoder!Nth(Encoder!Starts(text), n))
         /\ \A i \in Encoder!Starts(text) :
              /\ i \in 1 .. Len(text) /\ Encoder!LineEnd(text, i) \in i .. Len(text)
              /\ Line(text, i) \in Seq(Bytes) /\ Len(Line(text, i)) = Encoder!LineEnd(text, i) - i + 1
              /\ \A k \in 1 .. Len(Line(text, i)) : Line(text, i)[k] = text[i + k - 1]
<1>0. Len(text) \in Nat /\ \A i \in 1 .. Len(text) : text[i] \in Bytes
  OBVIOUS
<1>1. Encoder!Starts(text) \in SUBSET (1 .. Len(text))
  BY Zenon DEF Encoder!Starts
<1>2. Count(text) \in Nat
  <2>1. 0 \in Nat
    OBVIOUS
  <2> QED
    BY <1>0, <1>1, <2>1, RankType DEF Count
<1>3. \A n \in 1 .. Count(text) : Encoder!Nth(Encoder!Starts(text), n) \in Encoder!Starts(text)
  BY <1>0, <1>1, NthIs DEF Count
<1>4. ASSUME NEW i \in Encoder!Starts(text)
      PROVE  /\ i \in 1 .. Len(text) /\ Encoder!LineEnd(text, i) \in i .. Len(text)
             /\ Line(text, i) \in Seq(Bytes) /\ Len(Line(text, i)) = Encoder!LineEnd(text, i) - i + 1
             /\ \A k \in 1 .. Len(Line(text, i)) : Line(text, i)[k] = text[i + k - 1]
  <2>1. i \in 1 .. Len(text) /\ text[i] \notin Encoder!Ends
    BY Zenon DEF Encoder!Starts
  <2>2. PICK e : e = Encoder!LineEnd(text, i)
    OBVIOUS
  <2>3. e \in i .. Len(text)
    BY <2>1, <2>2, EndIs DEF IsEnd
  <2>4. i \in Int /\ e \in Int /\ \A k \in i .. e : text[k] \in Bytes
    BY <1>0, <2>1, <2>3
  <2>5. PICK l : l = SubSeq(text, i, e)
    OBVIOUS
  <2>6. /\ l \in Seq(Bytes) /\ Len(l) = IF i <= e THEN e - i + 1 ELSE 0
        /\ \A k \in 1 .. e - i + 1 : l[k] = text[i + k - 1]
    BY <2>4, <2>5, SubSeqProperties
  <2>7. Len(l) = e - i + 1
    BY <2>3, <2>4, <2>6
  <2> QED
    BY <2>1, <2>2, <2>3, <2>5, <2>6, <2>7 DEF Line
<1>5. Encoder!LinesOf(text) = [n \in 1 .. Count(text) |-> Line(text, Encoder!Nth(Encoder!Starts(text), n))]
  <2>1. Encoder!Cardinality(Encoder!Starts(text)) = Count(text)
    BY CountsAlike DEF Count
  <2> QED
    BY <2>1, Zenon DEF Encoder!LinesOf, Line
<1>6. Encoder!LinesOf(text) \in [1 .. Count(text) -> Seq(Bytes)]
  BY <1>3, <1>4, <1>5
<1>7. Encoder!LinesOf(text) \in Seq(Seq(Bytes)) /\ Len(Encoder!LinesOf(text)) = Count(text)
  BY <1>2, <1>6
<1> QED
  BY <1>2, <1>3, <1>4, <1>5, <1>7

\* The lines of what begins a text begin its lines.
LEMMA LinesBegin ==
  ASSUME NEW text \in Seq(Bytes), NEW c \in 0 .. Len(text), Kept(text, c)
  PROVE  /\ Count(SubSeq(text, 1, c)) <= Count(text)
         /\ \A n \in 1 .. Count(SubSeq(text, 1, c)) :
              Encoder!LinesOf(text)[n] = Encoder!LinesOf(SubSeq(text, 1, c))[n]
<1> PICK p : p = SubSeq(text, 1, c)
  OBVIOUS
<1>0. Len(text) \in Nat /\ c \in Nat /\ p \in Seq(Bytes) /\ Len(p) = c /\ \A i \in 1 .. c : p[i] = text[i]
  BY BeginningIs
<1>1. PICK S, first : S = Encoder!Starts(text) /\ first = Encoder!Starts(p)
  OBVIOUS
<1>2. first = Encoder!UpTo(S, c) /\ S \in SUBSET (1 .. Len(text))
  BY <1>1, LinesStart
<1>3. /\ Count(p) \in Nat /\ Count(p) <= Count(text) /\ Count(text) \in Nat
      /\ \A n \in 1 .. Count(p) : Encoder!Nth(first, n) \in first /\ Encoder!Nth(S, n) = Encoder!Nth(first, n)
  <2>1. /\ Cardinality(first) \in Nat /\ Cardinality(first) <= Cardinality(S) /\ Cardinality(S) \in Nat
        /\ \A n \in 1 .. Cardinality(first) :
             Encoder!Nth(first, n) \in first /\ Encoder!Nth(S, n) = Encoder!Nth(first, n)
    <3>1. PICK N : N = Len(text)
      OBVIOUS
    <3>2. N \in Nat /\ S \in SUBSET (1 .. N) /\ c \in 0 .. N /\ first = Encoder!UpTo(S, c)
      BY <1>0, <1>2, <3>1
    <3>3. /\ Cardinality(Encoder!UpTo(S, c)) \in Nat /\ Cardinality(Encoder!UpTo(S, c)) <= Cardinality(S)
          /\ Cardinality(S) \in Nat
          /\ \A n \in 1 .. Cardinality(Encoder!UpTo(S, c)) :
               /\ Encoder!Nth(Encoder!UpTo(S, c), n) \in Encoder!UpTo(S, c)
               /\ Encoder!Nth(S, n) = Encoder!Nth(Encoder!UpTo(S, c), n)
      BY <3>2, NthBegins
    <3> QED
      BY <1>2, <3>3
  <2> QED
    BY <1>1, <2>1 DEF Count
<1>4. ASSUME NEW n \in 1 .. Count(p)  PROVE Encoder!LinesOf(text)[n] = Encoder!LinesOf(p)[n]
  <2>1. PICK i : i = Encoder!Nth(first, n)
    OBVIOUS
  <2>2. i \in first /\ i \in S /\ n \in 1 .. Count(text)
    BY <1>2, <1>3, <2>1 DEF Encoder!UpTo
  <2>3. Encoder!LinesOf(p)[n] = Line(p, i)
    BY <1>0, <1>1, <2>1, LinesAre
  <2>4. Encoder!LinesOf(text)[n] = Line(text, i)
    BY <1>1, <1>3, <2>1, <2>2, LinesAre
  <2>5. PICK e : e = Encoder!LineEnd(p, i)
    OBVIOUS
  <2>6. Encoder!LineEnd(text, i) = e /\ i \in 1 .. c /\ e \in i .. c
    BY <1>1, <2>2, <2>5, LinesStart DEF Kept
  <2>7. /\ Line(p, i) \in Seq(Bytes) /\ Len(Line(p, i)) = e - i + 1
        /\ \A k \in 1 .. e - i + 1 : Line(p, i)[k] = p[i + k - 1]
    <3>1. i \in Encoder!Starts(p) /\ p \in Seq(Bytes)
      BY <1>0, <1>1, <2>2
    <3>2. /\ Line(p, i) \in Seq(Bytes) /\ Len(Line(p, i)) = Encoder!LineEnd(p, i) - i + 1
          /\ \A k \in 1 .. Len(Line(p, i)) : Line(p, i)[k] = p[i + k - 1]
      BY <3>1, LinesAre
    <3> QED
      BY <2>5, <3>2
  <2>8. /\ Line(text, i) \in Seq(Bytes) /\ Len(Line(text, i)) = e - i + 1
        /\ \A k \in 1 .. e - i + 1 : Line(text, i)[k] = text[i + k - 1]
    BY <1>1, <2>2, <2>6, LinesAre
  <2>9. \A k \in 1 .. e - i + 1 : i + k - 1 \in 1 .. c
    BY <1>0, <2>6
  <2>10. \A k \in 1 .. Len(Line(p, i)) : Line(p, i)[k] = Line(text, i)[k]
    BY <1>0, <2>7, <2>8, <2>9
  <2>11. Line(p, i) = Line(text, i)
    BY <2>7, <2>8, <2>10, SeqEqual
  <2> QED
    BY <2>3, <2>4, <2>11
<1> QED
  BY <1>3, <1>4

\* A piece more, without an end of a line and with ends after it, is a line more, unless
\* it is empty.
LEMMA LineMore ==
  ASSUME NEW text \in Seq(Bytes), NEW c \in 0 .. Len(text),
         c = 0 \/ text[c] \in Encoder!Ends, c < Len(text), NEW f \in 1 .. Len(text) - c + 1,
         \A i \in c + 1 .. c + f - 1 : text[i] \notin Encoder!Ends,
         \A i \in c + f .. Len(text) : text[i] \in Encoder!Ends
  PROVE  Encoder!LinesOf(text) =
           IF f = 1 THEN Encoder!LinesOf(SubSeq(text, 1, c))
           ELSE Append(Encoder!LinesOf(SubSeq(text, 1, c)), SubSeq(text, c + 1, c + f - 1))
<1> PICK p : p = SubSeq(text, 1, c)
  OBVIOUS
<1>0. /\ Len(text) \in Nat /\ c \in Nat /\ f \in Nat /\ f >= 1 /\ c + f <= Len(text) + 1
      /\ p \in Seq(Bytes) /\ Len(p) = c /\ Kept(text, c)
  BY BeginningIs DEF Kept
<1>1. PICK S, first : S = Encoder!Starts(text) /\ first = Encoder!Starts(p)
  OBVIOUS
<1>2. first = Encoder!UpTo(S, c) /\ S \in SUBSET (1 .. Len(text))
  BY <1>1, LinesStart
<1>3. PICK L, M : L = Encoder!LinesOf(text) /\ M = Encoder!LinesOf(p)
  OBVIOUS
<1>4. /\ L \in Seq(Seq(Bytes)) /\ Len(L) = Count(text) /\ M \in Seq(Seq(Bytes)) /\ Len(M) = Count(p)
      /\ Count(p) \in Nat /\ Count(text) \in Nat
      /\ \A n \in 1 .. Len(M) : L[n] = M[n]
  <2>1. L \in Seq(Seq(Bytes)) /\ Len(L) = Count(text) /\ Count(text) \in Nat
    BY <1>3, LinesAre
  <2>2. M \in Seq(Seq(Bytes)) /\ Len(M) = Count(p) /\ Count(p) \in Nat
    BY <1>0, <1>3, LinesAre
  <2>3. \A n \in 1 .. Count(p) : Encoder!LinesOf(text)[n] = Encoder!LinesOf(p)[n]
    BY <1>0, LinesBegin
  <2> QED
    BY <1>3, <2>1, <2>2, <2>3
<1>5. ASSUME NEW i \in S, i > c  PROVE i = c + 1 /\ f > 1
  <2>1. i \in 1 .. Len(text) /\ text[i] \notin Encoder!Ends /\ (i > 1 => text[i - 1] \in Encoder!Ends)
    BY <1>1, <1>5, Zenon DEF Encoder!Starts
  <2>2. i \notin c + f .. Len(text)
    BY <2>1
  <2>3. i \in c + 1 .. c + f - 1
    BY <1>0, <1>5, <2>1, <2>2
  <2>4. i # c + 1 => i - 1 \in c + 1 .. c + f - 1 /\ i > 1
    BY <1>0, <2>3
  <2> QED
    BY <1>0, <2>1, <2>3, <2>4
<1>6. CASE f = 1
  <2>1. \A i \in S : i <= c
    <3>1. \A i \in S : ~(i > c) /\ i \in Nat
      BY <1>2, <1>5, <1>6
    <3> QED
      BY <1>0, <3>1
  <2>2. first = S
    BY <1>2, <2>1, Zenon DEF Encoder!UpTo
  <2>3. Count(p) = Count(text)
    BY <1>1, <2>2 DEF Count
  <2>4. L = M
    BY <1>4, <2>3, SeqEqual
  <2> QED
    BY <1>3, <1>6, <2>4
<1>7. CASE f # 1
  <2>1. c + 1 \in 1 .. Len(text) /\ c + 1 \in c + 1 .. c + f - 1 /\ (c + 1) - 1 = c
    BY <1>0, <1>7
  <2>2. text[c + 1] \notin Encoder!Ends /\ (c + 1 > 1 => text[(c + 1) - 1] \in Encoder!Ends)
    BY <1>0, <2>1
  <2>3. c + 1 \in S
    BY <1>1, <2>1, <2>2, Zenon DEF Encoder!Starts
  <2>4. S = first \cup {c + 1}
    <3>1. \A i \in S : i <= c \/ i = c + 1
      <4>1. \A i \in S : i > c => i = c + 1
        BY <1>5
      <4>2. \A i \in S : i \in Nat
        BY <1>2
      <4> QED
        BY <1>0, <4>1, <4>2
    <3> QED
      BY <1>2, <2>3, <3>1, Zenon DEF Encoder!UpTo
  <2>5. Count(text) = Count(p) + 1 /\ Encoder!Nth(S, Count(text)) = c + 1
    <3>1. PICK N, x : N = Len(text) /\ x = c + 1
      OBVIOUS
    <3>2. N \in Nat /\ S \in SUBSET (1 .. N) /\ c \in 0 .. N /\ first = Encoder!UpTo(S, c)
      BY <1>0, <1>2, <3>1
    <3>3. x > c /\ x \in S /\ S = first \cup {x}
      BY <1>0, <2>3, <2>4, <3>1
    <3>4. S = Encoder!UpTo(S, c) \cup {x}
      BY <3>2, <3>3
    <3>5. Cardinality(S) = Cardinality(Encoder!UpTo(S, c)) + 1 /\ Encoder!Nth(S, Cardinality(S)) = x
      BY <3>2, <3>3, <3>4, NthAfter
    <3> QED
      BY <1>1, <3>1, <3>2, <3>5 DEF Count
  <2>6. Encoder!LineEnd(text, c + 1) = c + f - 1
    <3>1. c + f - 1 \in c + 1 .. Len(text) /\ \A k \in c + 1 .. c + f - 1 : text[k] \notin Encoder!Ends
      BY <1>0, <1>7
    <3>2. c + f - 1 < Len(text) => text[(c + f - 1) + 1] \in Encoder!Ends
      <4>1. (c + f - 1) + 1 = c + f /\ (c + f - 1 < Len(text) => c + f \in c + f .. Len(text))
        BY <1>0
      <4> QED
        BY <4>1
    <3>3. IsEnd(text, c + 1, c + f - 1)
      BY <3>1, <3>2 DEF IsEnd
    <3> QED
      BY <2>1, <2>2, <3>3, EndIs
  <2>7. L[Count(text)] = SubSeq(text, c + 1, c + f - 1) /\ SubSeq(text, c + 1, c + f - 1) \in Seq(Bytes)
    <3>1. Count(text) \in 1 .. Count(text)
      BY <1>4, <2>5
    <3>2. L[Count(text)] = Line(text, c + 1)
      BY <1>1, <1>3, <2>5, <3>1, LinesAre
    <3>3. Line(text, c + 1) \in Seq(Bytes)
      BY <1>1, <2>3, LinesAre
    <3> QED
      BY <2>6, <3>2, <3>3 DEF Line
  <2>8. L = Append(M, SubSeq(text, c + 1, c + f - 1))
    <3>1. PICK l : l = SubSeq(text, c + 1, c + f - 1)
      OBVIOUS
    <3>2. PICK A : A = Append(M, l)
      OBVIOUS
    <3>3. A \in Seq(Seq(Bytes)) /\ Len(A) = Len(M) + 1 /\ A[Len(M) + 1] = l /\ \A n \in 1 .. Len(M) : A[n] = M[n]
      <4>1. PICK T : T = Seq(Bytes)
        OBVIOUS
      <4>2. M \in Seq(T) /\ l \in T
        BY <1>4, <2>7, <3>1, <4>1
      <4>3. /\ A \in Seq(T) /\ Len(A) = Len(M) + 1 /\ A[Len(M) + 1] = l
            /\ \A n \in 1 .. Len(M) : A[n] = M[n]
        BY <3>2, <4>2, AppendProperties
      <4> QED
        BY <4>1, <4>3
    <3>4. Len(L) = Len(A)
      BY <1>4, <2>5, <3>3
    <3>5. \A n \in 1 .. Len(L) : n \in 1 .. Len(M) \/ n = Len(M) + 1
      BY <1>4, <2>5
    <3>6. \A n \in 1 .. Len(L) : L[n] = A[n]
      BY <1>4, <2>5, <2>7, <3>1, <3>3, <3>5
    <3> QED
      BY <1>4, <3>1, <3>2, <3>3, <3>4, <3>6, SeqEqual
  <2> QED
    BY <1>3, <1>7, <2>8
<1> QED
  BY <1>6, <1>7

\* What the split function finds: a piece without an end of a line, which one or two ends
\* follow, or which is the rest of what there is at the end (progress.go 15-50).
LEMMA SplitIs ==
  ASSUME NEW data \in Seq(Bytes), data # <<>>, NEW eof \in BOOLEAN,
         Encoder!scanCRLF(data, eof).advance > 0
  PROVE  \E a \in 1 .. Len(data) : \E f \in 1 .. a + 1 :
           /\ Encoder!scanCRLF(data, eof) = [advance |-> a, token |-> SubSeq(data, 1, f - 1)]
           /\ \A i \in 1 .. f - 1 : data[i] \notin Encoder!Ends
           /\ \A i \in f .. a : data[i] \in Encoder!Ends
           /\ data[a] \in Encoder!Ends \/ (eof /\ a = Len(data))
<1> DEFINE ends == {i \in 1 .. Len(data) : data[i] \in Encoder!Ends}
           first == CHOOSE i \in ends : \A j \in ends : i <= j
           both == data[first] = "r" /\ first < Len(data) /\ data[first + 1] = "n"
<1>0. Len(data) \in Nat /\ Len(data) >= 1 /\ "r" \in Encoder!Ends /\ "n" \in Encoder!Ends
  BY DEF Encoder!Ends
<1>1. CASE ends = {} /\ ~eof
  <2>1. Encoder!scanCRLF(data, eof) = Encoder!NoToken
    BY <1>1 DEF Encoder!scanCRLF
  <2> QED
    BY <2>1 DEF Encoder!NoToken
<1>2. CASE ends = {} /\ eof
  <2>1. Encoder!scanCRLF(data, eof) = [advance |-> Len(data), token |-> data]
    BY <1>2 DEF Encoder!scanCRLF
  <2>2. \A i \in 1 .. Len(data) : data[i] \notin Encoder!Ends
    BY <1>2
  <2>3. PICK a, f : a = Len(data) /\ f = Len(data) + 1
    OBVIOUS
  <2>4. a \in 1 .. Len(data) /\ f \in 1 .. a + 1 /\ f - 1 = a /\ ~(f <= a)
    BY <1>0, <2>3
  <2>5. SubSeq(data, 1, a) = data
    <3>1. PICK s : s = SubSeq(data, 1, a)
      OBVIOUS
    <3>2. a \in 0 .. Len(data)
      BY <2>4
    <3>3. s \in Seq(Bytes) /\ Len(s) = a /\ \A i \in 1 .. a : s[i] = data[i]
      BY <3>1, <3>2, BeginningIs
    <3>4. s = data
      BY <2>3, <3>3, SeqEqual
    <3> QED
      BY <3>1, <3>4
  <2>6. /\ Encoder!scanCRLF(data, eof) = [advance |-> a, token |-> SubSeq(data, 1, f - 1)]
        /\ \A i \in 1 .. f - 1 : data[i] \notin Encoder!Ends
        /\ \A i \in f .. a : data[i] \in Encoder!Ends
        /\ eof /\ a = Len(data)
    <3>1. \A i \in f .. a : FALSE
      BY <1>0, <2>3
    <3> QED
      BY <1>2, <2>1, <2>2, <2>3, <2>4, <2>5, <3>1
  <2> HIDE DEF ends, first, both
  <2> QED
    BY <2>4, <2>6
<1>3. CASE ends # {} /\ data[first] = "r" /\ first = Len(data) /\ ~eof
  <2>1. Encoder!scanCRLF(data, eof) = Encoder!NoToken
    BY <1>3 DEF Encoder!scanCRLF
  <2> QED
    BY <2>1 DEF Encoder!NoToken
<1>4. CASE ends # {} /\ ~(data[first] = "r" /\ first = Len(data) /\ ~eof)
  <2>1. first \in ends /\ \A j \in ends : first <= j
    <3>1. ends \in SUBSET (1 .. Len(data))
      OBVIOUS
    <3> HIDE DEF ends
    <3>2. \E x \in ends : \A y \in ends : x <= y
      BY <3>1, <1>0, <1>4, FirstOf
    <3> QED
      BY <3>1, <3>2
  <2>2. Encoder!scanCRLF(data, eof) =
          [advance |-> IF both THEN first + 1 ELSE first, token |-> SubSeq(data, 1, first - 1)]
    BY <1>4 DEF Encoder!scanCRLF
  <2>3. PICK f : f = first
    OBVIOUS
  <2>4. f \in 1 .. Len(data) /\ data[f] \in Encoder!Ends
    BY <2>1, <2>3
  <2>5. \A i \in 1 .. Len(data) : data[i] \in Encoder!Ends => f <= i
    BY <2>1, <2>3
  <2>6. PICK a : a = IF both THEN f + 1 ELSE f
    OBVIOUS
  <2>7. both <=> data[f] = "r" /\ f < Len(data) /\ data[f + 1] = "n"
    BY <2>3
  <2>8. Encoder!scanCRLF(data, eof) = [advance |-> a, token |-> SubSeq(data, 1, f - 1)]
    <3> HIDE DEF first, both, ends
    <3> QED
      BY <2>2, <2>3, <2>6
  <2> HIDE DEF ends, first, both
  <2>9. a \in 1 .. Len(data) /\ f \in 1 .. a + 1 /\ (a = f \/ (a = f + 1 /\ data[f + 1] = "n"))
    BY <1>0, <2>4, <2>6, <2>7
  <2>10. \A i \in 1 .. f - 1 : data[i] \notin Encoder!Ends
    <3>1. \A i \in 1 .. f - 1 : i \in 1 .. Len(data) /\ ~(f <= i)
      BY <1>0, <2>4
    <3> QED
      BY <2>5, <3>1
  <2>11. \A i \in f .. a : data[i] \in Encoder!Ends
    <3>1. \A i \in f .. a : i = f \/ (i = f + 1 /\ data[f + 1] = "n")
      BY <1>0, <2>4, <2>9
    <3> QED
      BY <1>0, <2>4, <3>1
  <2>12. data[a] \in Encoder!Ends
    BY <1>0, <2>4, <2>9
  <2> QED
    BY <2>8, <2>9, <2>10, <2>11, <2>12
<1> QED
  <2> HIDE DEF ends, first
  <2> QED
    BY <1>1, <1>2, <1>3, <1>4

----------------------------------------------------------------------------
(* What is kept of the lines *)

\* Those that are not progress, how many they are and which is the n-th.
Told(ls, tail, reports) ==
  /\ Len(tail) = IF Cardinality(Encoder!Messages(ls)) < TailSize
                 THEN Cardinality(Encoder!Messages(ls)) ELSE TailSize
  /\ reports + Cardinality(Encoder!Messages(ls)) = Len(ls)
  /\ \A n \in 1 .. Len(tail) :
       tail[n] = ls[Encoder!Nth(Encoder!Messages(ls), Cardinality(Encoder!Messages(ls)) - Len(tail) + n)]

\* A line more is a message more or is progress.
LEMMA MessagesMore ==
  ASSUME NEW ls \in Seq(Seq(Bytes)), NEW t \in Seq(Bytes)
  PROVE  /\ Encoder!Messages(ls) \in SUBSET (1 .. Len(ls))
         /\ Encoder!Messages(Append(ls, t)) \in SUBSET (1 .. Len(ls) + 1)
         /\ Encoder!Messages(ls) = Encoder!UpTo(Encoder!Messages(Append(ls, t)), Len(ls))
         /\ Encoder!Messages(Append(ls, t)) =
              IF Encoder!Contains(t, "t") THEN Encoder!Messages(ls)
              ELSE Encoder!Messages(ls) \cup {Len(ls) + 1}
<1>1. PICK T, ms : T = Seq(Bytes) /\ ms = Append(ls, t)
  OBVIOUS
<1>2. ls \in Seq(T) /\ t \in T /\ Len(ls) \in Nat
  BY <1>1
<1>3. /\ Len(ms) = Len(ls) + 1 /\ ms \in Seq(T) /\ ms[Len(ls) + 1] = t
      /\ \A n \in 1 .. Len(ls) : ms[n] = ls[n]
  BY <1>1, <1>2, AppendProperties
<1>4. DOMAIN ls = 1 .. Len(ls) /\ DOMAIN ms = 1 .. Len(ls) + 1
  BY <1>2, <1>3
<1>5. PICK N : N = Len(ls)
  OBVIOUS
<1>6. \A n : n \in Encoder!Messages(ls) <=> n \in 1 .. N /\ ~Encoder!Contains(ls[n], "t")
  BY <1>4, <1>5, Zenon DEF Encoder!Messages
<1>7. \A n : n \in Encoder!Messages(ms) <=> n \in 1 .. N + 1 /\ ~Encoder!Contains(ms[n], "t")
  BY <1>4, <1>5, Zenon DEF Encoder!Messages
<1>8. /\ N \in Nat /\ ~(N + 1 <= N) /\ N + 1 \in 1 .. N + 1
      /\ \A n \in 1 .. N : n <= N /\ n \in 1 .. N + 1
      /\ \A n \in 1 .. N + 1 : n \in 1 .. N \/ n = N + 1
  <2>1. N \in Nat
    BY <1>2, <1>5
  <2> QED
    BY <2>1
<1>9. /\ \A n \in 1 .. N : n \in Encoder!Messages(ls) <=> n \in Encoder!Messages(ms)
      /\ N + 1 \in Encoder!Messages(ms) <=> ~Encoder!Contains(t, "t")
  <2>1. ms[N + 1] = t /\ \A n \in 1 .. N : ms[n] = ls[n]
    BY <1>3, <1>5
  <2> QED
    BY <1>6, <1>7, <1>8, <2>1, Zenon
<1>10. Encoder!Messages(ls) \in SUBSET (1 .. N) /\ Encoder!Messages(ms) \in SUBSET (1 .. N + 1)
  BY <1>6, <1>7, Zenon
<1>11. \A n : n \in Encoder!Messages(ls) <=> n \in Encoder!Messages(ms) /\ n <= N
  <2>1. \A n \in 1 .. N + 1 : n <= N <=> n \in 1 .. N
    BY <1>8
  <2> QED
    BY <1>8, <1>9, <1>10, <2>1, Zenon
<1>12. Encoder!Messages(ls) = Encoder!UpTo(Encoder!Messages(ms), N)
  BY <1>11, Zenon DEF Encoder!UpTo
<1>13. CASE Encoder!Contains(t, "t")
  <2>1. \A n : n \in Encoder!Messages(ms) <=> n \in Encoder!Messages(ls)
    BY <1>8, <1>9, <1>10, <1>13, Zenon
  <2> QED
    BY <1>1, <1>5, <1>10, <1>12, <1>13, <2>1, Zenon
<1>14. CASE ~Encoder!Contains(t, "t")
  <2>1. \A n : n \in Encoder!Messages(ms) <=> n \in Encoder!Messages(ls) \/ n = N + 1
    BY <1>8, <1>9, <1>10, <1>14, Zenon
  <2>2. Encoder!Messages(ms) = Encoder!Messages(ls) \cup {N + 1}
    BY <2>1, Zenon
  <2> QED
    BY <1>1, <1>5, <1>10, <1>12, <1>14, <2>2, Zenon
<1> QED
  BY <1>13, <1>14

\* Progress is counted.
LEMMA ToldProgress ==
  ASSUME NEW ls \in Seq(Seq(Bytes)), NEW t \in Seq(Bytes), NEW tail \in Seq(Seq(Bytes)),
         NEW reports \in Nat,
         Encoder!Contains(t, "t"), Told(ls, tail, reports)
  PROVE  Told(Append(ls, t), tail, reports + 1)
<1>1. PICK M, N, ms, k : M = Encoder!Messages(ls) /\ N = Len(ls) /\ ms = Append(ls, t) /\ k = Len(tail)
  OBVIOUS
<1>2. M \in SUBSET (1 .. N) /\ Encoder!Messages(ms) = M /\ N \in Nat /\ k \in Nat
  BY <1>1, MessagesMore
<1>3. Len(ms) = N + 1 /\ \A n \in 1 .. N : ms[n] = ls[n]
  <2>1. PICK T : T = Seq(Bytes)
    OBVIOUS
  <2>2. ls \in Seq(T) /\ t \in T
    BY <2>1
  <2> QED
    BY <1>1, <2>2, AppendProperties
<1>4. PICK m : m = Cardinality(M)
  OBVIOUS
<1>5. m \in Nat /\ TailSize \in Nat
  BY <1>2, <1>4, RankType, EncoderAssumption DEF EncoderAssumption
<1>6. /\ k = IF m < TailSize THEN m ELSE TailSize
      /\ reports + m = N
      /\ \A n \in 1 .. k : tail[n] = ls[Encoder!Nth(M, m - k + n)]
  BY <1>1, <1>4 DEF Told
<1>7. (reports + 1) + m = N + 1
  BY <1>2, <1>5, <1>6
<1>8. ASSUME NEW n \in 1 .. k  PROVE tail[n] = ms[Encoder!Nth(M, m - k + n)]
  <2>1. m - k + n \in 1 .. m
    BY <1>2, <1>5, <1>6
  <2>2. Encoder!Nth(M, m - k + n) \in M
    BY <1>2, <1>4, <2>1, NthIs
  <2> QED
    BY <1>2, <1>3, <1>6, <2>2
<1> QED
  BY <1>1, <1>2, <1>3, <1>4, <1>6, <1>7, <1>8 DEF Told

\* Of the others the last are kept.
LEMMA ToldMessage ==
  ASSUME NEW ls \in Seq(Seq(Bytes)), NEW t \in Seq(Bytes), NEW tail \in Seq(Seq(Bytes)),
         NEW reports \in Nat,
         ~Encoder!Contains(t, "t"), Told(ls, tail, reports)
  PROVE  Told(Append(ls, t), IF Len(tail) >= TailSize THEN Append(Tail(tail), t)
                             ELSE Append(tail, t), reports)
<1>1. PICK M, N, ms, k : M = Encoder!Messages(ls) /\ N = Len(ls) /\ ms = Append(ls, t) /\ k = Len(tail)
  OBVIOUS
<1>2. PICK S : S = Encoder!Messages(ms)
  OBVIOUS
<1>3. /\ M \in SUBSET (1 .. N) /\ S \in SUBSET (1 .. N + 1) /\ S = M \cup {N + 1} /\ M = Encoder!UpTo(S, N)
      /\ N \in Nat /\ k \in Nat
  BY <1>1, <1>2, MessagesMore
<1>4. PICK T : T = Seq(Bytes)
  OBVIOUS
<1>5. ls \in Seq(T) /\ t \in T /\ tail \in Seq(T)
  BY <1>4
<1>6. Len(ms) = N + 1 /\ ms[N + 1] = t /\ \A n \in 1 .. N : ms[n] = ls[n]
  BY <1>1, <1>5, AppendProperties
<1>7. PICK m : m = Cardinality(M)
  OBVIOUS
<1>8. m \in Nat /\ TailSize \in Nat /\ TailSize > 0
  <2>1. 0 \in Nat
    OBVIOUS
  <2>2. Cardinality(M) \in Nat
    BY <1>3, <2>1, RankType
  <2> QED
    BY <1>7, <2>2, EncoderAssumption DEF EncoderAssumption
<1>9. /\ k = IF m < TailSize THEN m ELSE TailSize
      /\ reports + m = N
      /\ \A n \in 1 .. k : tail[n] = ls[Encoder!Nth(M, m - k + n)]
  BY <1>1, <1>7 DEF Told
<1>10. Cardinality(S) = m + 1 /\ Encoder!Nth(S, m + 1) = N + 1
  <2>1. PICK L, x : L = N + 1 /\ x = N + 1
    OBVIOUS
  <2>2. L \in Nat /\ S \in SUBSET (1 .. L) /\ N \in 0 .. L /\ x \in S /\ x > N
    <3>1. S \in SUBSET (1 .. L) /\ x \in S
      BY <1>3, <2>1, Zenon
    <3>2. L \in Nat /\ N \in 0 .. L /\ x > N
      BY <1>3, <2>1
    <3> QED
      BY <3>1, <3>2
  <2>3. S = Encoder!UpTo(S, N) \cup {x}
    BY <1>3, <2>1
  <2>4. Cardinality(S) = Cardinality(Encoder!UpTo(S, N)) + 1 /\ Encoder!Nth(S, Cardinality(S)) = x
    BY <2>2, <2>3, NthAfter
  <2> QED
    BY <1>3, <1>7, <2>1, <2>4
<1>11. \A n \in 1 .. m : Encoder!Nth(M, n) \in M /\ Encoder!Nth(S, n) = Encoder!Nth(M, n)
  <2>1. PICK L : L = N + 1
    OBVIOUS
  <2>2. L \in Nat /\ S \in SUBSET (1 .. L) /\ N \in 0 .. L
    <3>1. S \in SUBSET (1 .. L)
      BY <1>3, <2>1, Zenon
    <3>2. L \in Nat /\ N \in 0 .. L
      BY <1>3, <2>1
    <3> QED
      BY <3>1, <3>2
  <2>3. \A n \in 1 .. Cardinality(Encoder!UpTo(S, N)) :
          /\ Encoder!Nth(Encoder!UpTo(S, N), n) \in Encoder!UpTo(S, N)
          /\ Encoder!Nth(S, n) = Encoder!Nth(Encoder!UpTo(S, N), n)
    BY <2>2, NthBegins
  <2> QED
    BY <1>3, <1>7, <2>3
<1>12. \A n \in 1 .. k : tail[n] = ms[Encoder!Nth(S, m - k + n)]
  <2> SUFFICES ASSUME NEW n \in 1 .. k  PROVE tail[n] = ms[Encoder!Nth(S, m - k + n)]
    OBVIOUS
  <2>1. m - k + n \in 1 .. m
    BY <1>3, <1>8, <1>9
  <2>2. Encoder!Nth(M, m - k + n) \in 1 .. N /\ Encoder!Nth(S, m - k + n) = Encoder!Nth(M, m - k + n)
    BY <1>3, <1>11, <2>1
  <2> QED
    BY <1>6, <1>9, <2>2
<1>13. PICK u : u = IF k >= TailSize THEN Append(Tail(tail), t) ELSE Append(tail, t)
  OBVIOUS
<1>14. PICK h : h = Len(u)
  OBVIOUS
<1>15. /\ h = IF m + 1 < TailSize THEN m + 1 ELSE TailSize
       /\ \A n \in 1 .. h : u[n] = ms[Encoder!Nth(S, m + 1 - h + n)]
  <2>1. CASE k >= TailSize
    <3>1. PICK s : s = Tail(tail)
      OBVIOUS
    <3>2. s \in Seq(T) /\ Len(s) = k - 1 /\ \A n \in 1 .. k - 1 : s[n] = tail[n + 1]
      <4>1. tail # <<>>
        BY <1>1, <1>3, <1>8, <2>1
      <4> QED
        BY <1>1, <1>5, <3>1, <4>1, HeadTailProperties
    <3>3. u = Append(s, t)
      BY <1>13, <2>1, <3>1
    <3>4. Len(u) = Len(s) + 1 /\ u[Len(s) + 1] = t /\ \A n \in 1 .. Len(s) : u[n] = s[n]
      BY <1>5, <3>2, <3>3, AppendProperties
    <3>5. k = TailSize /\ h = k /\ m >= k
      BY <1>3, <1>8, <1>9, <1>14, <2>1, <3>2, <3>4
    <3>6. ASSUME NEW n \in 1 .. h, n # h  PROVE u[n] = ms[Encoder!Nth(S, m + 1 - h + n)]
      <4>1. n \in 1 .. k - 1 /\ n + 1 \in 1 .. k /\ m - k + (n + 1) = m + 1 - h + n
        BY <1>3, <1>8, <3>5, <3>6
      <4>2. u[n] = tail[n + 1]
        BY <3>2, <3>4, <4>1
      <4> QED
        BY <1>12, <4>1, <4>2
    <3>7. u[h] = ms[Encoder!Nth(S, m + 1 - h + h)]
      <4>1. m + 1 - h + h = m + 1 /\ h = Len(s) + 1
        BY <1>3, <1>8, <3>2, <3>5
      <4> QED
        BY <1>6, <1>10, <3>4, <4>1
    <3>8. h = IF m + 1 < TailSize THEN m + 1 ELSE TailSize
      BY <1>3, <1>8, <3>5
    <3> QED
      BY <3>6, <3>7, <3>8
  <2>2. CASE ~(k >= TailSize)
    <3>1. u = Append(tail, t)
      BY <1>13, <2>2
    <3>2. Len(u) = k + 1 /\ u[k + 1] = t /\ \A n \in 1 .. k : u[n] = tail[n]
      BY <1>1, <1>5, <3>1, AppendProperties
    <3>3. k = m /\ h = m + 1 /\ m + 1 <= TailSize
      BY <1>3, <1>8, <1>9, <1>14, <2>2, <3>2
    <3>4. ASSUME NEW n \in 1 .. h, n # h  PROVE u[n] = ms[Encoder!Nth(S, m + 1 - h + n)]
      <4>1. n \in 1 .. k /\ m - k + n = m + 1 - h + n
        BY <1>3, <1>8, <3>3, <3>4
      <4> QED
        BY <1>12, <3>2, <4>1
    <3>5. u[h] = ms[Encoder!Nth(S, m + 1 - h + h)]
      <4>1. m + 1 - h + h = m + 1 /\ h = k + 1
        BY <1>3, <1>8, <3>3
      <4> QED
        BY <1>6, <1>10, <3>2, <4>1
    <3>6. h = IF m + 1 < TailSize THEN m + 1 ELSE TailSize
      BY <1>8, <3>3
    <3> QED
      BY <3>4, <3>5, <3>6
  <2> QED
    BY <2>1, <2>2
<1>16. reports + (m + 1) = Len(ms)
  BY <1>3, <1>6, <1>8, <1>9
<1>17. Told(ms, u, reports)
  <2>1. Cardinality(Encoder!Messages(ms)) = m + 1 /\ Len(u) = h
    BY <1>2, <1>10, <1>14
  <2>2. Len(u) = IF Cardinality(Encoder!Messages(ms)) < TailSize
                 THEN Cardinality(Encoder!Messages(ms)) ELSE TailSize
    BY <1>15, <2>1
  <2>3. reports + Cardinality(Encoder!Messages(ms)) = Len(ms)
    BY <1>16, <2>1
  <2>4. \A n \in 1 .. Len(u) :
          u[n] = ms[Encoder!Nth(Encoder!Messages(ms), Cardinality(Encoder!Messages(ms)) - Len(u) + n)]
    <3> SUFFICES ASSUME NEW n \in 1 .. Len(u)
                 PROVE  u[n] = ms[Encoder!Nth(Encoder!Messages(ms), Cardinality(Encoder!Messages(ms)) - Len(u) + n)]
      OBVIOUS
    <3>1. u[n] = ms[Encoder!Nth(S, m + 1 - h + n)]
      BY <1>15, <2>1
    <3>2. PICK c, q : c = Cardinality(Encoder!Messages(ms)) /\ q = Len(u)
      OBVIOUS
    <3>3. c - q + n = m + 1 - h + n
      <4>1. c = m + 1 /\ q = h
        BY <2>1, <3>2
      <4>2. m \in Nat /\ h \in Nat /\ n \in Nat
        BY <1>8, <1>15, <2>1
      <4> QED
        BY <4>1, <4>2
    <3>4. u[n] = ms[Encoder!Nth(S, c - q + n)]
      BY <3>1, <3>3, Zenon
    <3> QED
      BY <1>2, <3>2, <3>4, Zenon
  <2> QED
    BY <2>2, <2>3, <2>4, Zenon DEF Told
<1> QED
  BY <1>1, <1>13, <1>17

----------------------------------------------------------------------------
(* What the reader has seen *)

\* What was read and is no longer in the buffer.
Seen == proc.written - Len(pipe) - Len(reader.buf)

\* Buffer and pipe hold what comes after it, the lines returned are its lines, and no line
\* was cut where it ends.
ReaderInv ==
  /\ EncoderInv
  /\ lines \in Seq(Seq(Bytes)) /\ Seen \in Nat
  /\ \A i \in 1 .. Len(reader.buf) : reader.buf[i] = output[Seen + i]
  /\ \A i \in 1 .. Len(pipe) : pipe[i] = output[Seen + Len(reader.buf) + i]
  /\ lines = Encoder!LinesOf(SubSeq(output, 1, Seen))
  /\ Seen = 0 \/ output[Seen] \in Encoder!Ends \/ (Seen = proc.written /\ ~proc.on)
  /\ reader.pc \in {"eof", "ended"} => ~proc.on /\ pipe = <<>>
  /\ reader.pc = "ended" => reader.buf = <<>>
  /\ Told(lines, reader.tail, reader.reports)

\* The types the steps below need.
LEMMA ReaderTypes ==
  ASSUME ReaderInv
  PROVE  /\ output \in Seq(Bytes) /\ Len(output) \in Nat
         /\ pipe \in Seq(Bytes) /\ Len(pipe) \in Nat
         /\ reader \in [pc : {"scan", "eof", "stopped", "ended"}, buf : Seq(Bytes),
                        tail : Seq(Seq(Bytes)), reports : Nat]
         /\ reader.buf \in Seq(Bytes) /\ Len(reader.buf) \in Nat
         /\ proc \in [on : BOOLEAN, written : 0 .. Len(output)] /\ proc.written \in 0 .. Len(output)
         /\ Seen \in Nat /\ proc.written = Seen + Len(reader.buf) + Len(pipe)
<1>1. /\ output \in Seq(Bytes) /\ pipe \in Seq(Bytes)
      /\ reader \in [pc : {"scan", "eof", "stopped", "ended"}, buf : Seq(Bytes),
                     tail : Seq(Seq(Bytes)), reports : Nat]
      /\ proc \in [on : BOOLEAN, written : 0 .. Len(output)] /\ Seen \in Nat
  BY DEF ReaderInv, EncoderInv, Encoder!TypeOK
<1>2. Len(output) \in Nat /\ Len(pipe) \in Nat /\ reader.buf \in Seq(Bytes) /\ proc.written \in 0 .. Len(output)
  BY <1>1
<1>3. Len(reader.buf) \in Nat
  BY <1>2
<1>4. Seen = proc.written - Len(pipe) - Len(reader.buf)
  BY DEF Seen
<1>5. proc.written = Seen + Len(reader.buf) + Len(pipe)
  BY <1>1, <1>2, <1>3, <1>4
<1> QED
  BY <1>1, <1>2, <1>3, <1>5

\* Nothing was read at the start.
LEMMA InitReader == BackgroundInit => ReaderInv
<1> SUFFICES ASSUME BackgroundInit PROVE ReaderInv
  OBVIOUS
<1>1. /\ EncoderInv /\ proc.written = 0 /\ pipe = <<>> /\ lines = <<>>
      /\ reader = [pc |-> "scan", buf |-> <<>>, tail |-> <<>>, reports |-> 0]
  BY InitEncoder DEF BackgroundInit, Encoder!Init
<1>2. /\ Len(<<>>) = 0 /\ <<>> \in Seq(Seq(Bytes)) /\ <<>> \in Seq(Bytes) /\ DOMAIN <<>> = {}
      /\ \A i \in 1 .. 0 : FALSE
  OBVIOUS
<1>3. /\ reader.buf = <<>> /\ reader.tail = <<>> /\ reader.reports = 0 /\ reader.pc = "scan"
  BY <1>1
<1>4. Seen = 0
  <2>1. Len(pipe) = 0 /\ Len(reader.buf) = 0
    BY <1>1, <1>2, <1>3
  <2>2. proc.written = 0
    BY <1>1
  <2>3. Seen = proc.written - Len(pipe) - Len(reader.buf)
    BY DEF Seen
  <2> QED
    BY <2>1, <2>2, <2>3
<1>5. SubSeq(output, 1, 0) = <<>>
  <2>1. output \in Seq(Bytes)
    BY <1>1 DEF EncoderInv
  <2>2. PICK s : s = SubSeq(output, 1, 0)
    OBVIOUS
  <2>3. 0 \in 0 .. Len(output)
    BY <2>1
  <2>4. s \in Seq(Bytes) /\ Len(s) = 0
    BY <2>1, <2>2, <2>3, BeginningIs
  <2> QED
    BY <2>2, <2>4
<1>6. Encoder!LinesOf(<<>>) = <<>>
  <2>1. Encoder!Starts(<<>>) = {}
    BY <1>2 DEF Encoder!Starts
  <2>2. Count(<<>>) = 0
    BY <2>1, FS_EmptySet DEF Count
  <2>3. Len(Encoder!LinesOf(<<>>)) = 0 /\ Encoder!LinesOf(<<>>) \in Seq(Seq(Bytes))
    BY <1>2, <2>2, LinesAre
  <2> QED
    BY <2>3
<1>7. Told(<<>>, <<>>, 0)
  <2>1. Encoder!Messages(<<>>) = {}
    BY <1>2 DEF Encoder!Messages
  <2>2. Cardinality(Encoder!Messages(<<>>)) = 0 /\ TailSize > 0
    BY <2>1, FS_EmptySet, EncoderAssumption DEF EncoderAssumption
  <2> QED
    BY <1>2, <2>2 DEF Told
<1>8. /\ \A i \in 1 .. Len(reader.buf) : FALSE
      /\ \A i \in 1 .. Len(pipe) : FALSE
  BY <1>1, <1>2, <1>3
<1>9. lines \in Seq(Seq(Bytes)) /\ lines = Encoder!LinesOf(SubSeq(output, 1, Seen))
  BY <1>1, <1>2, <1>4, <1>5, <1>6, Zenon
<1>10. Told(lines, reader.tail, reader.reports)
  BY <1>1, <1>3, <1>7, Zenon
<1> QED
  BY <1>1, <1>3, <1>4, <1>8, <1>9, <1>10 DEF ReaderInv

\* What is left of a text.
LEMMA RestIs ==
  ASSUME NEW text \in Seq(Bytes), NEW c \in 0 .. Len(text)
  PROVE  /\ SubSeq(text, c + 1, Len(text)) \in Seq(Bytes)
         /\ Len(SubSeq(text, c + 1, Len(text))) = Len(text) - c
         /\ \A i \in 1 .. Len(text) - c : SubSeq(text, c + 1, Len(text))[i] = text[c + i]
<1>1. PICK s, m, e : s = SubSeq(text, m, e) /\ m = c + 1 /\ e = Len(text)
  OBVIOUS
<1>2. e \in Nat /\ m \in Nat /\ c \in Nat /\ m <= e + 1 /\ e - m + 1 = e - c
  BY <1>1
<1>3. \A i \in m .. e : text[i] \in Bytes
  <2>1. \A i \in m .. e : i \in 1 .. Len(text)
    BY <1>1, <1>2
  <2> QED
    BY <2>1
<1>4. m \in Int /\ e \in Int
  BY <1>2
<1>5. /\ s \in Seq(Bytes) /\ Len(s) = IF m <= e THEN e - m + 1 ELSE 0
      /\ \A i \in 1 .. e - m + 1 : s[i] = text[m + i - 1]
  BY <1>1, <1>3, <1>4, SubSeqProperties
<1>6. Len(s) = e - c
  BY <1>2, <1>5
<1>7. \A i \in 1 .. e - c : s[i] = text[c + i]
  <2>1. \A i \in 1 .. e - c : m + i - 1 = c + i
    BY <1>1, <1>2
  <2> QED
    BY <1>2, <1>5, <2>1
<1> QED
  BY <1>1, <1>5, <1>6, <1>7

\* What ffmpeg writes comes after what is in the pipe.
LEMMA WriteReader ==
  ASSUME ReaderInv, Encoder!Write, EncoderInv'
  PROVE  ReaderInv'
<1>0. /\ output \in Seq(Bytes) /\ pipe \in Seq(Bytes) /\ Len(pipe) \in Nat
      /\ Len(reader.buf) \in Nat /\ proc.written \in Nat /\ proc.written < Len(output) /\ Len(output) \in Nat
      /\ Seen \in Nat /\ proc.written = Seen + Len(reader.buf) + Len(pipe) /\ proc.on = TRUE
      /\ proc \in [on : BOOLEAN, written : 0 .. Len(output)]
      /\ UNCHANGED <<output, reader, lines>>
  BY ReaderTypes DEF Encoder!Write
<1>1. PICK w : w = proc.written + 1
  OBVIOUS
<1>2. proc' = [proc EXCEPT !.written = w] /\ pipe' = Append(pipe, output[w])
  BY <1>1 DEF Encoder!Write
<1>3. proc'.written = w /\ w \in 1 .. Len(output)
  BY <1>0, <1>1, <1>2
<1>4. /\ Len(pipe') = Len(pipe) + 1 /\ pipe'[Len(pipe) + 1] = output[w]
      /\ \A i \in 1 .. Len(pipe) : pipe'[i] = pipe[i]
  <2>1. output[w] \in Bytes
    BY <1>0, <1>3
  <2> QED
    BY <1>0, <1>2, <2>1, AppendProperties
<1>5. Seen' = Seen
  <2>1. Seen' = proc'.written - Len(pipe') - Len(reader'.buf) /\ reader'.buf = reader.buf
    BY <1>0 DEF Seen
  <2> QED
    BY <1>0, <1>1, <1>3, <1>4, <2>1
<1>6. ASSUME NEW i \in 1 .. Len(pipe')  PROVE pipe'[i] = output[Seen + Len(reader.buf) + i]
  <2>1. CASE i \in 1 .. Len(pipe)
    BY <1>4, <2>1 DEF ReaderInv
  <2>2. CASE i \notin 1 .. Len(pipe)
    <3>1. i = Len(pipe) + 1 /\ Seen + Len(reader.buf) + i = w
      BY <1>0, <1>1, <1>4, <2>2
    <3> QED
      BY <1>4, <3>1
  <2> QED
    BY <2>1, <2>2
<1>7. ~(reader.pc \in {"eof", "ended"}) /\ (Seen = 0 \/ output[Seen] \in Encoder!Ends)
  BY <1>0 DEF ReaderInv
<1>8. /\ lines \in Seq(Seq(Bytes)) /\ lines = Encoder!LinesOf(SubSeq(output, 1, Seen))
      /\ \A i \in 1 .. Len(reader.buf) : reader.buf[i] = output[Seen + i]
      /\ Told(lines, reader.tail, reader.reports)
  BY DEF ReaderInv
<1> QED
  BY <1>0, <1>5, <1>6, <1>7, <1>8 DEF ReaderInv

\* What is read goes from the front of the pipe to the end of the buffer.
LEMMA ReadReader ==
  ASSUME ReaderInv, Encoder!Read, EncoderInv'
  PROVE  ReaderInv'
<1>0. /\ output \in Seq(Bytes) /\ pipe \in Seq(Bytes) /\ Len(pipe) \in Nat
      /\ reader.buf \in Seq(Bytes) /\ Len(reader.buf) \in Nat /\ proc.written \in Nat
      /\ reader \in [pc : {"scan", "eof", "stopped", "ended"}, buf : Seq(Bytes),
                     tail : Seq(Seq(Bytes)), reports : Nat]
      /\ Seen \in Nat /\ proc.written = Seen + Len(reader.buf) + Len(pipe)
      /\ UNCHANGED <<output, proc, lines>> /\ reader.pc = "scan"
  BY ReaderTypes DEF Encoder!Read
<1>1. CASE reader' = [reader EXCEPT !.pc = "eof"] /\ UNCHANGED pipe /\ Encoder!atEOF
  <2>1. ~proc.on /\ pipe = <<>>
    BY <1>1 DEF Encoder!atEOF
  <2>2. reader'.buf = reader.buf /\ reader'.tail = reader.tail /\ reader'.reports = reader.reports /\ reader'.pc = "eof"
    BY <1>0, <1>1
  <2>3. Seen' = Seen
    BY <1>0, <1>1, <2>2 DEF Seen
  <2> QED
    BY <1>0, <1>1, <2>1, <2>2, <2>3 DEF ReaderInv
<1>2. ASSUME NEW n \in 1 .. Len(pipe),
             reader' = [reader EXCEPT !.buf = reader.buf \o SubSeq(pipe, 1, n)],
             pipe' = SubSeq(pipe, n + 1, Len(pipe))
      PROVE  ReaderInv'
  <2>1. PICK s, b, L : s = SubSeq(pipe, 1, n) /\ b = reader.buf \o s /\ L = Len(reader.buf)
    OBVIOUS
  <2>2. s \in Seq(Bytes) /\ Len(s) = n /\ \A i \in 1 .. n : s[i] = pipe[i]
    <3>1. n \in 0 .. Len(pipe)
      BY <1>0
    <3> QED
      BY <1>0, <2>1, <3>1, BeginningIs
  <2>3. /\ b \in Seq(Bytes) /\ Len(b) = L + n
        /\ \A i \in 1 .. L + n : b[i] = IF i <= L THEN reader.buf[i] ELSE s[i - L]
    <3>1. PICK B : B = reader.buf
      OBVIOUS
    <3>2. B \in Seq(Bytes) /\ b = B \o s /\ Len(B) = L
      BY <1>0, <2>1, <3>1
    <3>3. /\ b \in Seq(Bytes) /\ Len(b) = Len(B) + Len(s)
          /\ \A i \in 1 .. Len(B) + Len(s) : b[i] = IF i <= Len(B) THEN B[i] ELSE s[i - Len(B)]
      BY <2>2, <3>2, ConcatProperties
    <3> QED
      BY <2>2, <3>1, <3>2, <3>3
  <2>4. /\ reader' = [reader EXCEPT !.buf = b] /\ reader'.buf = b /\ reader'.tail = reader.tail
        /\ reader'.reports = reader.reports /\ reader'.pc = "scan"
    BY <1>0, <1>2, <2>1
  <2>5. /\ Len(pipe') = Len(pipe) - n /\ \A i \in 1 .. Len(pipe) - n : pipe'[i] = pipe[n + i]
    <3>1. n \in 0 .. Len(pipe)
      BY <1>0
    <3> QED
      BY <1>0, <1>2, <3>1, RestIs
  <2>6. Seen' = Seen
    <3>1. Seen' = proc.written - Len(pipe') - Len(b)
      BY <1>0, <2>4 DEF Seen
    <3> QED
      BY <1>0, <2>1, <2>3, <2>5, <3>1
  <2>7. ASSUME NEW i \in 1 .. Len(b)  PROVE b[i] = output[Seen + i]
    <3>1. CASE i <= L
      <4>1. i \in 1 .. Len(reader.buf) /\ b[i] = reader.buf[i]
        BY <1>0, <2>1, <2>3, <3>1
      <4> QED
        BY <4>1 DEF ReaderInv
    <3>2. CASE ~(i <= L)
      <4>1. i - L \in 1 .. n /\ b[i] = s[i - L] /\ i - L \in 1 .. Len(pipe) /\ Seen + L + (i - L) = Seen + i
        BY <1>0, <2>1, <2>3, <3>2
      <4>2. b[i] = pipe[i - L]
        BY <2>2, <4>1
      <4>3. pipe[i - L] = output[Seen + L + (i - L)]
        BY <2>1, <4>1 DEF ReaderInv
      <4> QED
        BY <4>1, <4>2, <4>3
    <3> QED
      BY <3>1, <3>2
  <2>8. ASSUME NEW i \in 1 .. Len(pipe')  PROVE pipe'[i] = output[Seen + Len(b) + i]
    <3>0. i \in 1 .. Len(pipe) - n /\ L \in Nat
      BY <1>0, <2>1, <2>5
    <3>1. n + i \in 1 .. Len(pipe) /\ pipe'[i] = pipe[n + i] /\ Seen + L + (n + i) = Seen + Len(b) + i
      <4>1. pipe'[i] = pipe[n + i] /\ Len(b) = L + n
        BY <2>3, <2>5, <3>0
      <4>2. n + i \in 1 .. Len(pipe) /\ Seen + L + (n + i) = Seen + (L + n) + i
        BY <1>0, <3>0
      <4> QED
        BY <4>1, <4>2
    <3>2. pipe[n + i] = output[Seen + L + (n + i)]
      BY <2>1, <3>1 DEF ReaderInv
    <3> QED
      BY <3>1, <3>2
  <2>9. /\ lines \in Seq(Seq(Bytes)) /\ lines = Encoder!LinesOf(SubSeq(output, 1, Seen))
        /\ Seen = 0 \/ output[Seen] \in Encoder!Ends \/ (Seen = proc.written /\ ~proc.on)
        /\ Told(lines, reader.tail, reader.reports)
    BY DEF ReaderInv
  <2> QED
    BY <1>0, <2>4, <2>6, <2>7, <2>8, <2>9 DEF ReaderInv
<1> QED
  BY <1>1, <1>2 DEF Encoder!Read

\* A line leaves the buffer for the lines returned, whatever ends it.
LEMMA ScanReader ==
  ASSUME ReaderInv, Encoder!Scan, EncoderInv'
  PROVE  ReaderInv'
<1>0. /\ output \in Seq(Bytes) /\ Len(output) \in Nat /\ Len(pipe) \in Nat
      /\ reader.buf \in Seq(Bytes) /\ Len(reader.buf) \in Nat /\ proc.written \in 0 .. Len(output)
      /\ reader \in [pc : {"scan", "eof", "stopped", "ended"}, buf : Seq(Bytes),
                     tail : Seq(Seq(Bytes)), reports : Nat]
      /\ Seen \in Nat /\ proc.written = Seen + Len(reader.buf) + Len(pipe)
      /\ UNCHANGED <<output, proc, pipe>> /\ reader.pc \in {"scan", "eof"}
  BY ReaderTypes DEF Encoder!Scan
<1>1. PICK data, eof : data = reader.buf /\ eof = (reader.pc = "eof")
  OBVIOUS
<1>2. /\ data \in Seq(Bytes) /\ eof \in BOOLEAN /\ data # <<>>
      /\ Encoder!Split = Encoder!scanCRLF(data, eof) /\ Encoder!scanCRLF(data, eof).advance > 0
  <2>1. Encoder!Split.advance > 0
    BY DEF Encoder!Scan
  <2>2. reader.buf # <<>>
    BY <2>1 DEF Encoder!Split, Encoder!NoToken
  <2>3. Encoder!Split = Encoder!scanCRLF(reader.buf, reader.pc = "eof")
    BY <2>2 DEF Encoder!Split
  <2>4. Encoder!Split = Encoder!scanCRLF(data, eof)
    BY <1>1, <2>3, Zenon
  <2> QED
    BY <1>0, <1>1, <2>1, <2>2, <2>4
<1>a. PICK a \in 1 .. Len(data) : \E f \in 1 .. a + 1 :
        /\ Encoder!scanCRLF(data, eof) = [advance |-> a, token |-> SubSeq(data, 1, f - 1)]
        /\ \A i \in 1 .. f - 1 : data[i] \notin Encoder!Ends
        /\ \A i \in f .. a : data[i] \in Encoder!Ends
        /\ data[a] \in Encoder!Ends \/ (eof /\ a = Len(data))
  BY <1>2, SplitIs
<1>3. PICK f \in 1 .. a + 1 :
        /\ Encoder!scanCRLF(data, eof) = [advance |-> a, token |-> SubSeq(data, 1, f - 1)]
        /\ \A i \in 1 .. f - 1 : data[i] \notin Encoder!Ends
        /\ \A i \in f .. a : data[i] \in Encoder!Ends
        /\ data[a] \in Encoder!Ends \/ (eof /\ a = Len(data))
  BY <1>a
<1>4. PICK t, b, c : t = SubSeq(data, 1, f - 1) /\ b = SubSeq(data, a + 1, Len(data)) /\ c = Seen
  OBVIOUS
<1>5. PICK L, P : L = Len(data) /\ P = proc.written
  OBVIOUS
<1>6. /\ L \in Nat /\ c \in Nat /\ a \in 1 .. L /\ f \in 1 .. a + 1 /\ P = c + L + Len(pipe)
      /\ P \in 0 .. Len(output) /\ c + a \in 1 .. Len(output) /\ c + a \in 0 .. Len(output) /\ c + a \in Nat
      /\ a \in Nat /\ f \in Nat /\ f - 1 \in 0 .. L
  <2>1. L \in Nat /\ c \in Nat /\ a \in 1 .. L /\ f \in 1 .. a + 1 /\ P = c + L + Len(pipe) /\ P \in 0 .. Len(output)
    BY <1>0, <1>1, <1>4, <1>5
  <2> QED
    BY <1>0, <2>1
<1>7. /\ t \in Seq(Bytes) /\ Len(t) = f - 1 /\ \A i \in 1 .. f - 1 : t[i] = data[i]
  BY <1>2, <1>4, <1>5, <1>6, BeginningIs
<1>8. /\ b \in Seq(Bytes) /\ Len(b) = L - a /\ \A i \in 1 .. L - a : b[i] = data[a + i]
  <2>1. a \in 0 .. Len(data)
    BY <1>5, <1>6
  <2> QED
    BY <1>2, <1>4, <1>5, <2>1, RestIs
<1>9. PICK r : r = [reader EXCEPT !.buf = b]
  OBVIOUS
<1>10. reader' = Encoder!Taken(r, t) /\ lines' = IF t = <<>> THEN lines ELSE Append(lines, t)
  <2>1. Encoder!Split.advance = a /\ Encoder!Split.token = t
    BY <1>2, <1>3, <1>4
  <2>2. /\ reader' = Encoder!Taken([reader EXCEPT !.buf = SubSeq(reader.buf, Encoder!Split.advance + 1, Len(reader.buf))],
                                   Encoder!Split.token)
        /\ lines' = IF Encoder!Split.token = <<>> THEN lines ELSE Append(lines, Encoder!Split.token)
    BY DEF Encoder!Scan
  <2> QED
    BY <1>1, <1>4, <1>9, <2>1, <2>2
<1>11. /\ r.buf = b /\ r.tail = reader.tail /\ r.reports = reader.reports /\ r.pc = reader.pc
       /\ r \in [pc : {"scan", "eof", "stopped", "ended"}, buf : Seq(Bytes),
                 tail : Seq(Seq(Bytes)), reports : Nat]
  BY <1>0, <1>8, <1>9
<1>12. t = <<>> <=> f = 1
  BY <1>6, <1>7
<1>13. PICK u : u = IF Len(r.tail) >= TailSize THEN Append(Tail(r.tail), t) ELSE Append(r.tail, t)
  OBVIOUS
<1>14. reader' = IF t = <<>> THEN r
                 ELSE IF Encoder!Contains(t, "t") THEN [r EXCEPT !.reports = r.reports + 1]
                 ELSE [r EXCEPT !.tail = u]
  BY <1>10, <1>13 DEF Encoder!Taken
<1>15. reader'.buf = b /\ reader'.pc = reader.pc
  BY <1>11, <1>14
<1>16. Seen' = c + a
  <2>1. Seen' = proc.written - Len(pipe) - Len(b)
    BY <1>0, <1>15 DEF Seen
  <2>2. Len(b) = L - a /\ proc.written = c + L + Len(pipe)
    BY <1>5, <1>6, <1>8
  <2>3. PICK q, v : q = Len(pipe) /\ v = Len(b)
    OBVIOUS
  <2>4. Seen' = (c + L + q) - q - v /\ v = L - a /\ q \in Nat
    BY <1>0, <2>1, <2>2, <2>3
  <2> QED
    BY <1>6, <2>4
<1>17. PICK text : text = SubSeq(output, 1, c + a)
  OBVIOUS
<1>18. text \in Seq(Bytes) /\ Len(text) = c + a /\ \A i \in 1 .. c + a : text[i] = output[i]
  BY <1>0, <1>6, <1>17, BeginningIs
<1>19. \A i \in 1 .. a : text[c + i] = data[i]
  <2> SUFFICES ASSUME NEW i \in 1 .. a  PROVE text[c + i] = data[i]
    OBVIOUS
  <2>1. i \in 1 .. Len(reader.buf) /\ c + i \in 1 .. c + a
    BY <1>1, <1>5, <1>6
  <2>2. data[i] = output[c + i]
    BY <1>1, <1>4, <2>1 DEF ReaderInv
  <2> QED
    BY <1>18, <2>1, <2>2
<1>20. c = 0 \/ text[c] \in Encoder!Ends
  <2>1. c # P
    BY <1>0, <1>6
  <2>2. c = 0 \/ output[c] \in Encoder!Ends
    BY <1>4, <1>5, <2>1 DEF ReaderInv
  <2>3. c # 0 => c \in 1 .. c + a
    BY <1>6
  <2> QED
    BY <1>18, <2>2, <2>3
<1>21. SubSeq(text, 1, c) = SubSeq(output, 1, c)
  <2>1. PICK x, y : x = SubSeq(text, 1, c) /\ y = SubSeq(output, 1, c)
    OBVIOUS
  <2>2. c \in 0 .. Len(text) /\ c \in 0 .. Len(output) /\ text \in Seq(Bytes) /\ output \in Seq(Bytes)
    BY <1>0, <1>6, <1>18
  <2>3. x \in Seq(Bytes) /\ Len(x) = c /\ \A i \in 1 .. c : x[i] = text[i]
    BY <2>1, <2>2, BeginningIs
  <2>4. y \in Seq(Bytes) /\ Len(y) = c /\ \A i \in 1 .. c : y[i] = output[i]
    BY <2>1, <2>2, BeginningIs
  <2>5. \A i \in 1 .. c : i \in 1 .. c + a
    BY <1>6
  <2>6. x = y
    <3>1. \A i \in 1 .. Len(x) : x[i] = y[i]
      BY <1>18, <2>3, <2>4, <2>5
    <3> QED
      BY <2>3, <2>4, <3>1, SeqEqual
  <2> QED
    BY <2>1, <2>6
<1>22. SubSeq(text, c + 1, c + f - 1) = t
  <2>1. PICK m, e, s : m = c + 1 /\ e = c + f - 1 /\ s = SubSeq(text, m, e)
    OBVIOUS
  <2>2. m \in Int /\ e \in Int /\ e - m + 1 = f - 1 /\ m <= e + 1
    BY <1>6, <2>1
  <2>3. \A i \in m .. e : text[i] \in Bytes
    <3>1. \A i \in m .. e : i \in 1 .. Len(text)
      BY <1>6, <1>18, <2>1
    <3> QED
      BY <1>18, <3>1
  <2>4. /\ s \in Seq(Bytes) /\ Len(s) = IF m <= e THEN e - m + 1 ELSE 0
        /\ \A i \in 1 .. e - m + 1 : s[i] = text[m + i - 1]
    <3>1. m \in Int /\ e \in Int
      BY <2>2
    <3>2. SubSeq(text, m, e) = s
      BY <2>1
    <3>3. /\ SubSeq(text, m, e) \in Seq(Bytes) /\ Len(SubSeq(text, m, e)) = IF m <= e THEN e - m + 1 ELSE 0
          /\ \A i \in 1 .. e - m + 1 : SubSeq(text, m, e)[i] = text[m + i - 1]
      BY <2>3, <3>1, SubSeqProperties
    <3> QED
      BY <3>2, <3>3
  <2>5. Len(s) = f - 1
    BY <1>6, <2>1, <2>2, <2>4
  <2>6. ASSUME NEW i \in 1 .. f - 1  PROVE s[i] = t[i]
    <3>1. s[i] = text[m + i - 1]
      BY <2>2, <2>4
    <3>2. m + i - 1 = c + i /\ i \in 1 .. a
      BY <1>6, <2>1
    <3> QED
      BY <1>7, <1>19, <3>1, <3>2
  <2>7. s = t
    BY <1>7, <2>4, <2>5, <2>6, SeqEqual
  <2> QED
    BY <2>1, <2>7
<1>23. Encoder!LinesOf(text) = IF f = 1 THEN Encoder!LinesOf(SubSeq(output, 1, c))
                               ELSE Append(Encoder!LinesOf(SubSeq(output, 1, c)), t)
  <2>1. c \in 0 .. Len(text) /\ c < Len(text) /\ f \in 1 .. Len(text) - c + 1
    BY <1>6, <1>18
  <2>2. \A i \in c + 1 .. c + f - 1 : text[i] \notin Encoder!Ends
    <3> SUFFICES ASSUME NEW i \in c + 1 .. c + f - 1  PROVE text[i] \notin Encoder!Ends
      OBVIOUS
    <3>1. i - c \in 1 .. f - 1 /\ i - c \in 1 .. a /\ c + (i - c) = i
      BY <1>6
    <3>2. text[c + (i - c)] = data[i - c] /\ data[i - c] \notin Encoder!Ends
      BY <1>3, <1>19, <3>1
    <3> QED
      BY <3>1, <3>2
  <2>3. \A i \in c + f .. Len(text) : text[i] \in Encoder!Ends
    <3> SUFFICES ASSUME NEW i \in c + f .. Len(text)  PROVE text[i] \in Encoder!Ends
      OBVIOUS
    <3>1. i - c \in f .. a /\ i - c \in 1 .. a /\ c + (i - c) = i
      BY <1>6, <1>18
    <3>2. text[c + (i - c)] = data[i - c] /\ data[i - c] \in Encoder!Ends
      BY <1>3, <1>19, <3>1
    <3> QED
      BY <3>1, <3>2
  <2>4. Encoder!LinesOf(text) = IF f = 1 THEN Encoder!LinesOf(SubSeq(text, 1, c))
                                ELSE Append(Encoder!LinesOf(SubSeq(text, 1, c)), SubSeq(text, c + 1, c + f - 1))
    BY <1>18, <1>20, <2>1, <2>2, <2>3, LineMore
  <2> QED
    BY <1>21, <1>22, <2>4
<1>24. lines' = Encoder!LinesOf(SubSeq(output, 1, c + a)) /\ lines' \in Seq(Seq(Bytes))
  <2>1. lines = Encoder!LinesOf(SubSeq(output, 1, c))
    BY <1>4 DEF ReaderInv
  <2>2. lines' = Encoder!LinesOf(text)
    BY <1>10, <1>12, <1>23, <2>1, Zenon
  <2>3. Encoder!LinesOf(text) \in Seq(Seq(Bytes))
    BY <1>18, LinesAre
  <2> QED
    BY <1>17, <2>2, <2>3
<1>25. c + a = 0 \/ output[c + a] \in Encoder!Ends \/ (c + a = P /\ ~proc.on)
  <2>1. output[c + a] = data[a]
    <3>1. a \in 1 .. a /\ c + a \in 1 .. c + a
      BY <1>6
    <3> QED
      BY <1>18, <1>19, <3>1
  <2>2. CASE data[a] \in Encoder!Ends
    BY <2>1, <2>2
  <2>3. CASE eof /\ a = Len(data)
    <3>1. ~proc.on /\ pipe = <<>>
      BY <1>1, <2>3 DEF ReaderInv
    <3>2. Len(pipe) = 0
      BY <3>1
    <3> QED
      BY <1>5, <1>6, <2>3, <3>1, <3>2
  <2> QED
    BY <1>3, <2>2, <2>3
<1>26. ASSUME NEW i \in 1 .. Len(b)  PROVE b[i] = output[(c + a) + i]
  <2>1. a + i \in 1 .. Len(reader.buf) /\ i \in 1 .. L - a /\ c + (a + i) = (c + a) + i
    BY <1>1, <1>5, <1>6, <1>8
  <2>2. data[a + i] = output[c + (a + i)]
    BY <1>1, <1>4, <2>1 DEF ReaderInv
  <2> QED
    BY <1>8, <2>1, <2>2
<1>27. ASSUME NEW i \in 1 .. Len(pipe)  PROVE pipe[i] = output[(c + a) + Len(b) + i]
  <2>1. (c + a) + Len(b) + i = c + L + i
    BY <1>0, <1>6, <1>8
  <2>2. pipe[i] = output[c + L + i]
    BY <1>1, <1>4, <1>5 DEF ReaderInv
  <2> QED
    BY <2>1, <2>2
<1>28. Told(lines', reader'.tail, reader'.reports)
  <2>1. Told(lines, reader.tail, reader.reports) /\ lines \in Seq(Seq(Bytes))
    BY DEF ReaderInv
  <2>2. reader.tail \in Seq(Seq(Bytes)) /\ reader.reports \in Nat
    BY <1>0
  <2>3. CASE t = <<>>
    <3>1. reader'.tail = reader.tail /\ reader'.reports = reader.reports /\ lines' = lines
      BY <1>10, <1>11, <1>14, <2>3
    <3> QED
      BY <2>1, <3>1
  <2>4. CASE t # <<>> /\ Encoder!Contains(t, "t")
    <3>1. reader' = [r EXCEPT !.reports = r.reports + 1]
      BY <1>14, <2>4
    <3>2. PICK n : n = r.reports + 1
      OBVIOUS
    <3>3. reader' = [r EXCEPT !.reports = n]
      BY <3>1, <3>2
    <3>4. reader'.tail = reader.tail /\ reader'.reports = n /\ n = reader.reports + 1
      BY <1>11, <3>2, <3>3
    <3>5. lines' = Append(lines, t)
      BY <1>10, <2>4
    <3>6. Told(Append(lines, t), reader.tail, reader.reports + 1)
      BY <1>7, <2>1, <2>2, <2>4, ToldProgress
    <3> QED
      BY <3>4, <3>5, <3>6
  <2>5. CASE t # <<>> /\ ~Encoder!Contains(t, "t")
    <3>1. reader' = [r EXCEPT !.tail = u]
      BY <1>14, <2>5
    <3>2. reader'.tail = u /\ reader'.reports = reader.reports
      BY <1>11, <3>1
    <3>3. lines' = Append(lines, t)
      BY <1>10, <2>5
    <3>4. PICK tail : tail = reader.tail
      OBVIOUS
    <3>5. u = IF Len(tail) >= TailSize THEN Append(Tail(tail), t) ELSE Append(tail, t)
      BY <1>11, <1>13, <3>4
    <3>6. Told(Append(lines, t), IF Len(tail) >= TailSize THEN Append(Tail(tail), t) ELSE Append(tail, t), reader.reports)
      <4>1. tail \in Seq(Seq(Bytes)) /\ Told(lines, tail, reader.reports)
        BY <2>1, <2>2, <3>4
      <4> QED
        BY <1>7, <2>1, <2>2, <2>5, <4>1, ToldMessage
    <3> QED
      BY <3>2, <3>3, <3>5, <3>6
  <2> QED
    BY <2>3, <2>4, <2>5
<1>29. reader.pc # "ended" /\ (reader.pc \in {"eof", "ended"} => ~proc.on /\ pipe = <<>>)
  BY <1>0 DEF ReaderInv
<1>30. /\ Seen' \in Nat /\ lines' \in Seq(Seq(Bytes)) /\ lines' = Encoder!LinesOf(SubSeq(output', 1, Seen'))
       /\ Seen' = 0 \/ output'[Seen'] \in Encoder!Ends \/ (Seen' = proc'.written /\ ~proc'.on)
  BY <1>0, <1>5, <1>6, <1>16, <1>24, <1>25
<1>31. /\ \A i \in 1 .. Len(reader'.buf) : reader'.buf[i] = output'[Seen' + i]
       /\ \A i \in 1 .. Len(pipe') : pipe'[i] = output'[Seen' + Len(reader'.buf) + i]
  BY <1>0, <1>15, <1>16, <1>26, <1>27
<1>32. (reader'.pc \in {"eof", "ended"} => ~proc'.on /\ pipe' = <<>>) /\ reader'.pc # "ended"
  BY <1>0, <1>15, <1>29
<1> QED
  BY <1>28, <1>30, <1>31, <1>32 DEF ReaderInv

\* At the end of the output the split function leaves nothing.
LEMMA SplitTakesRest ==
  ASSUME NEW data \in Seq(Bytes), data # <<>>
  PROVE  Encoder!scanCRLF(data, TRUE).advance > 0
<1> DEFINE ends == {i \in 1 .. Len(data) : data[i] \in Encoder!Ends}
           first == CHOOSE i \in ends : \A j \in ends : i <= j
           both == data[first] = "r" /\ first < Len(data) /\ data[first + 1] = "n"
<1>0. Len(data) \in Nat /\ Len(data) > 0
  OBVIOUS
<1>1. CASE ends = {}
  BY <1>0, <1>1 DEF Encoder!scanCRLF
<1>2. CASE ends # {}
  <2>1. first \in 1 .. Len(data)
    <3>1. ends \in SUBSET (1 .. Len(data))
      OBVIOUS
    <3> HIDE DEF ends
    <3>2. \E x \in ends : \A y \in ends : x <= y
      BY <3>1, <1>0, <1>2, FirstOf
    <3> QED
      BY <3>1, <3>2
  <2>2. Encoder!scanCRLF(data, TRUE).advance = IF both THEN first + 1 ELSE first
    BY <1>2 DEF Encoder!scanCRLF
  <2> HIDE DEF first, ends, both
  <2>3. PICK x : x = IF both THEN first + 1 ELSE first
    OBVIOUS
  <2>4. x > 0
    BY <1>0, <2>1, <2>3
  <2> QED
    BY <2>2, <2>3, <2>4
<1> QED
  BY <1>1, <1>2

\* Every step keeps what the reader has seen.
LEMMA ReaderStep == ReaderInv /\ [Encoder!Next]_Encoder!vars => ReaderInv'
<1> SUFFICES ASSUME ReaderInv, [Encoder!Next]_Encoder!vars PROVE ReaderInv'
  OBVIOUS
<1>0. EncoderInv'
  BY EncoderStep DEF ReaderInv
<1>1. ASSUME UNCHANGED <<output, pipe, lines>>, proc'.written = proc.written,
             reader'.buf = reader.buf, reader'.tail = reader.tail, reader'.reports = reader.reports,
             proc.on = FALSE => proc'.on = FALSE, proc'.on \in BOOLEAN, proc.on \in BOOLEAN,
             reader'.pc \in {"eof", "ended"} => ~proc'.on /\ pipe = <<>>,
             reader'.pc = "ended" => reader.buf = <<>>
      PROVE  ReaderInv'
  <2>1. Seen' = Seen
    BY <1>1 DEF Seen
  <2>2. Seen = proc.written /\ ~proc.on => Seen' = proc'.written /\ ~proc'.on
    BY <1>1, <2>1
  <2> QED
    BY <1>0, <1>1, <2>1, <2>2 DEF ReaderInv
<1>2. /\ reader \in [pc : {"scan", "eof", "stopped", "ended"}, buf : Seq(Bytes),
                     tail : Seq(Seq(Bytes)), reports : Nat]
      /\ proc \in [on : BOOLEAN, written : 0 .. Len(output)] /\ proc.on \in BOOLEAN
  BY ReaderTypes
<1>3. /\ reader.pc \in {"eof", "ended"} => ~proc.on /\ pipe = <<>>
      /\ reader.pc = "ended" => reader.buf = <<>>
  BY DEF ReaderInv
<1>4. CASE UNCHANGED <<output, proc, pipe, reader, lines>>
  BY <1>1, <1>2, <1>3, <1>4
<1>5. CASE Encoder!Exit \/ Encoder!Killed
  <2>1. UNCHANGED <<output, pipe, lines, reader>> /\ proc' = [proc EXCEPT !.on = FALSE]
    BY <1>5 DEF Encoder!Exit, Encoder!Killed
  <2>2. proc'.on = FALSE /\ proc'.written = proc.written
    BY <1>2, <2>1
  <2> QED
    BY <1>1, <1>2, <1>3, <2>1, <2>2
<1>6. CASE Encoder!TooLong
  <2>1. UNCHANGED <<output, pipe, lines, proc>> /\ reader' = [reader EXCEPT !.pc = "stopped"]
    BY <1>6 DEF Encoder!TooLong
  <2>2. /\ reader'.buf = reader.buf /\ reader'.tail = reader.tail /\ reader'.reports = reader.reports
        /\ reader'.pc = "stopped"
    BY <1>2, <2>1
  <2> QED
    BY <1>1, <1>2, <2>1, <2>2
<1>7. CASE Encoder!ScanEnds
  <2>1. /\ UNCHANGED <<output, pipe, lines, proc>> /\ reader' = [reader EXCEPT !.pc = "ended"]
        /\ reader.pc = "eof" /\ Encoder!Split.advance = 0
    BY <1>7 DEF Encoder!ScanEnds
  <2>2. /\ reader'.buf = reader.buf /\ reader'.tail = reader.tail /\ reader'.reports = reader.reports
        /\ reader'.pc = "ended"
    BY <1>2, <2>1
  <2>3. reader.buf = <<>>
    <3> SUFFICES ASSUME reader.buf # <<>>  PROVE FALSE
      OBVIOUS
    <3>1. PICK data : data = reader.buf
      OBVIOUS
    <3>2. Encoder!Split = Encoder!scanCRLF(data, TRUE)
      BY <2>1, <3>1 DEF Encoder!Split
    <3>3. data \in Seq(Bytes) /\ data # <<>>
      BY <1>2, <3>1
    <3>4. Encoder!scanCRLF(data, TRUE).advance > 0
      BY <3>3, SplitTakesRest
    <3>5. ~(0 > 0)
      OBVIOUS
    <3> QED
      BY <2>1, <3>2, <3>4, <3>5, Zenon
  <2> QED
    BY <1>1, <1>2, <1>3, <2>1, <2>2, <2>3
<1> QED
  BY <1>0, <1>4, <1>5, <1>6, <1>7, WriteReader, ReadReader, ScanReader
  DEF Encoder!Next, Encoder!Reads, Encoder!StderrWait, Encoder!Wait, Encoder!vars

\* What the reader has seen says what the lines returned are.
LEMMA SeenMeaning == ReaderInv => LinesRead
<1> SUFFICES ASSUME ReaderInv PROVE Encoder!LinesRead
  BY DEF LinesRead
<1>1. /\ output \in Seq(Bytes) /\ Len(output) \in Nat /\ Len(pipe) \in Nat /\ Len(reader.buf) \in Nat
      /\ proc.written \in 0 .. Len(output)
      /\ Seen \in Nat /\ proc.written = Seen + Len(reader.buf) + Len(pipe)
  BY ReaderTypes
<1>2. PICK c, P : c = Seen /\ P = proc.written
  OBVIOUS
<1>3. c \in 0 .. P /\ P \in 0 .. Len(output) /\ c \in 0 .. Len(output) /\ P \in Nat
  BY <1>1, <1>2
<1>4. PICK text, L : text = SubSeq(output, 1, P) /\ L = Encoder!LinesOf(text)
  OBVIOUS
<1>5. text \in Seq(Bytes) /\ Len(text) = P /\ \A i \in 1 .. P : text[i] = output[i]
  BY <1>1, <1>3, <1>4, BeginningIs
<1>6. SubSeq(text, 1, c) = SubSeq(output, 1, c)
  <2>1. PICK x, y : x = SubSeq(text, 1, c) /\ y = SubSeq(output, 1, c)
    OBVIOUS
  <2>2. x \in Seq(Bytes) /\ Len(x) = c /\ \A i \in 1 .. c : x[i] = text[i]
    BY <1>3, <1>5, <2>1, BeginningIs
  <2>3. y \in Seq(Bytes) /\ Len(y) = c /\ \A i \in 1 .. c : y[i] = output[i]
    BY <1>1, <1>3, <2>1, BeginningIs
  <2>4. \A i \in 1 .. c : i \in 1 .. P
    BY <1>3
  <2>5. \A i \in 1 .. Len(x) : x[i] = y[i]
    BY <1>5, <2>2, <2>3, <2>4
  <2> QED
    BY <2>1, <2>2, <2>3, <2>5, SeqEqual
<1>7. lines = Encoder!LinesOf(SubSeq(text, 1, c)) /\ lines \in Seq(Seq(Bytes))
  BY <1>2, <1>6 DEF ReaderInv
<1>8. Kept(text, c)
  <2>1. c = 0 \/ output[c] \in Encoder!Ends \/ c = P
    BY <1>2 DEF ReaderInv
  <2>2. c # 0 => c \in 1 .. P
    BY <1>3
  <2> QED
    BY <1>5, <2>1, <2>2 DEF Kept
<1>9. /\ L \in Seq(Seq(Bytes)) /\ Len(lines) <= Len(L)
      /\ \A n \in 1 .. Len(lines) : L[n] = lines[n]
  <2>1. c \in 0 .. Len(text)
    BY <1>3, <1>5
  <2>2. PICK p : p = SubSeq(text, 1, c)
    OBVIOUS
  <2>3. p \in Seq(Bytes)
    BY <1>5, <2>1, <2>2, BeginningIs
  <2>4. Len(lines) = Count(p)
    BY <1>7, <2>2, <2>3, LinesAre
  <2>5. L \in Seq(Seq(Bytes)) /\ Len(L) = Count(text)
    BY <1>4, <1>5, LinesAre
  <2>6. /\ Count(SubSeq(text, 1, c)) <= Count(text)
        /\ \A n \in 1 .. Count(SubSeq(text, 1, c)) : Encoder!LinesOf(text)[n] = Encoder!LinesOf(SubSeq(text, 1, c))[n]
    BY <1>5, <1>8, <2>1, LinesBegin
  <2> QED
    BY <1>4, <1>7, <2>2, <2>4, <2>5, <2>6
<1>10. Encoder!IsPrefix(lines, L)
  <2>1. PICK n, T : n = Len(lines) /\ T = Seq(Bytes)
    OBVIOUS
  <2>2. n \in Nat /\ lines \in Seq(T) /\ L \in Seq(T) /\ Len(L) \in Nat /\ n <= Len(L)
    BY <1>7, <1>9, <2>1
  <2>3. PICK x, y : x = SubSeq(lines, 1, n) /\ y = SubSeq(L, 1, n)
    OBVIOUS
  <2>4. (\A i \in 1 .. n : lines[i] \in T) /\ (\A i \in 1 .. n : L[i] \in T)
    BY <2>1, <2>2
  <2>5. 1 \in Int /\ n \in Int /\ n - 1 + 1 = n /\ (IF 1 <= n THEN n - 1 + 1 ELSE 0) = n
    BY <2>2
  <2>6. /\ x \in Seq(T) /\ Len(x) = (IF 1 <= n THEN n - 1 + 1 ELSE 0)
        /\ \A i \in 1 .. n - 1 + 1 : x[i] = lines[1 + i - 1]
    BY <2>3, <2>4, <2>5, SubSeqProperties
  <2>7. /\ y \in Seq(T) /\ Len(y) = (IF 1 <= n THEN n - 1 + 1 ELSE 0)
        /\ \A i \in 1 .. n - 1 + 1 : y[i] = L[1 + i - 1]
    BY <2>3, <2>4, <2>5, SubSeqProperties
  <2>8. \A i \in 1 .. n : 1 + i - 1 = i
    BY <2>2
  <2>9. Len(x) = n /\ Len(y) = n /\ \A i \in 1 .. Len(x) : x[i] = y[i]
    BY <1>9, <2>1, <2>5, <2>6, <2>7, <2>8
  <2>10. x = y
    BY <2>6, <2>7, <2>9, SeqEqual
  <2> QED
    BY <2>1, <2>2, <2>3, <2>10 DEF Encoder!IsPrefix
<1>11. reader.pc = "ended" => lines = L
  <2> SUFFICES ASSUME reader.pc = "ended"  PROVE lines = L
    OBVIOUS
  <2>1. pipe = <<>> /\ reader.buf = <<>>
    BY DEF ReaderInv
  <2>2. c = P
    BY <1>1, <1>2, <2>1
  <2> QED
    BY <1>2, <1>4, <2>2 DEF ReaderInv
<1>12. Told(lines, reader.tail, reader.reports)
  BY DEF ReaderInv
<1>13. PICK M, m : M = Encoder!Messages(lines) /\ m = Cardinality(M)
  OBVIOUS
<1>14. Encoder!Cardinality(M) = m
  BY <1>13, CountsAlike
<1>15. /\ reader.reports + m = Len(lines)
       /\ Len(reader.tail) = IF m < TailSize THEN m ELSE TailSize
       /\ \A n \in 1 .. Len(reader.tail) : reader.tail[n] = lines[Encoder!Nth(M, m - Len(reader.tail) + n)]
  BY <1>12, <1>13 DEF Told
<1> QED
  BY <1>2, <1>4, <1>10, <1>11, <1>13, <1>14, <1>15, Zenon DEF Encoder!LinesRead

\* However ffmpeg's output is cut into reads, and whether it ends, fails or is killed, the
\* lines the scanner returned begin those written, after the end of the output they are all
\* of them, each was counted as progress or is a message, and the tail for the error
\* message is the last messages (progress.go 15-109), for any output, pipe, buffer and tail.
THEOREM LinesAreRead == BackgroundSpec => []LinesRead
<1>1. BackgroundSpec => BackgroundInit /\ Encoder!Spec
  BY EncoderRuns, PTL DEF BackgroundSpec
<1>2. BackgroundSpec => []ReaderInv
  BY <1>1, InitReader, ReaderStep, PTL DEF Encoder!Spec
<1> QED
  BY <1>2, SeenMeaning, PTL

=============================================================================
