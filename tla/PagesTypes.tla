----------------------------- MODULE PagesTypes -----------------------------
(***************************************************************************)
(* What the client's pages show side by side belongs together              *)
(* (ShownBelongsTogether), and every page has its types (TypeOK), beside   *)
(* the invariants of PagesProofs.  MenuPaths has the proofs about the      *)
(* menu's searches itself.                                                 *)
(***************************************************************************)
EXTENDS PagesProofs, FiniteSetTheorems

----------------------------------------------------------------------------
(* The account page: the profile on the screen *)

\* A change that is done and has not been told to the page yet.
Due(calls) == {s \in Slots : calls[s] # Account!Idle /\ Account!Changes(calls[s].kind) /\ calls[s].step = "done"}
Refreshes(calls) == {s \in Slots : calls[s].kind = "refresh"}

\* What was read is the server's profile, or of an earlier version of it.
ReadBefore(read, profile) ==
  read.version <= profile.version /\ (read.version = profile.version => read = profile)

\* A refresh that brings the server's profile, or will read it.
Brings(call, profile) == call.step = "sent" \/ call.says = profile

\* What is read is a version of the profile; and unless a refresh was lost, overtaken or
\* left out, what is shown is the profile, or a change is due, or a refresh will bring it.
ProfileInv ==
  /\ ReadBefore(seen, db)
  /\ \A s \in Refreshes(net) : net[s].step = "done" => net[s].says \in Account!Profile /\ ReadBefore(net[s].says, db)
  /\ ~told.blurred => Due(net) # {} \/ seen = db \/ \E s \in Refreshes(net) : Brings(net[s], db)

LEMMA InitProfile == ASSUME Account!Init PROVE ProfileInv
<1>1. seen = db /\ db.version = 0 /\ \A s \in Slots : net[s] = Account!Idle
  BY DEF Account!Init
<1>2. Account!Idle.kind # "refresh"
  BY DEF Account!Idle
<1> QED
  BY <1>1, <1>2 DEF ProfileInv, ReadBefore, Refreshes

\* With no call open it is what is claimed.
LEMMA ProfileOfInv == ASSUME ProfileInv PROVE Account!ProfileIsShown
BY DEF ProfileInv, Account!ProfileIsShown, Due, Refreshes, Account!Idle

ProfileCalls == [kind: Account!Refreshing \cup Account!Quiet \cup {"refresh"}, says: Texts \cup {None} \cup Account!Profile, step: {"sent", "done"}]

LEMMA CallKinds ==
  /\ "refresh" \notin Account!Refreshing \cup Account!Quiet
       /\ Account!Idle.kind \notin Account!Refreshing \cup Account!Quiet \cup {"refresh"}
  /\ ~Account!Changes("refresh")
BY DEF Account!Refreshing, Account!Fields, Account!Quiet, Account!Idle, Account!Changes

\* A call that is neither a refresh nor a change due comes or goes.
LEMMA ProfileOther ==
  ASSUME ProfileInv, NEW s \in Slots, net \in [Slots -> {Account!Idle} \cup ProfileCalls], NEW c,
         net' = [net EXCEPT ![s] = c], UNCHANGED <<db, seen>>,
         s \notin Due(net) \cup Refreshes(net), c.kind # "refresh",
         told.blurred => told'.blurred
  PROVE  ProfileInv'
<1>1. \A t \in Slots : t # s => net'[t] = net[t]
  OBVIOUS
<1>2. net'[s] = c /\ net[s].kind # "refresh"
  BY DEF Refreshes
<1>3. Refreshes(net') = Refreshes(net)
  BY <1>1, <1>2 DEF Refreshes
<1>4. Due(net) \subseteq Due(net')
  BY <1>1 DEF Due
<1>5. \A t \in Refreshes(net) : net'[t] = net[t]
  BY <1>1 DEF Refreshes
<1>6. Refreshes(net)' = Refreshes(net') /\ Due(net)' = Due(net')
  BY DEF Refreshes, Due
<1>7. ReadBefore(seen', db')
      /\ \A t \in Refreshes(net') : net'[t].step = "done" => net'[t].says \in Account!Profile /\ ReadBefore(net'[t].says, db')
  BY <1>3, <1>5 DEF ProfileInv
<1>8. ~told'.blurred => Due(net') # {} \/ seen' = db' \/ \E t \in Refreshes(net') : Brings(net'[t], db')
  BY <1>3, <1>4, <1>5 DEF ProfileInv
<1> QED
  BY <1>6, <1>7, <1>8 DEF ProfileInv

\* No version is later than the server's.
LEMMA VersionsAre ==
  ASSUME NEW read \in Account!Profile, NEW profile \in Account!Profile
  PROVE  /\ read.version \in Nat /\ profile.version \in Nat
         /\ ReadBefore(read, read)
         /\ \A next : next.version = profile.version + 1 /\ ReadBefore(read, profile) => ReadBefore(read, next)
<1>1. 0 .. MaxChanges \subseteq Nat
  BY PagesAssumption
<1>2. read.version \in Nat /\ profile.version \in Nat
  BY <1>1 DEF Account!Profile
<1> QED
  BY <1>2 DEF ReadBefore

LEMMA NextProfile == ASSUME Account!TypeOK, ProfileInv, Account!Next PROVE ProfileInv'
<1>1. net \in [Slots -> {Account!Idle} \cup ProfileCalls] /\ db \in Account!Profile
      /\ told \in [name: Texts \cup {None}, email: Texts \cup {None}, blurred: BOOLEAN]
  BY DEF Account!TypeOK, ProfileCalls
<1>2. Refreshes(net)' = Refreshes(net') /\ Due(net)' = Due(net')
  BY DEF Refreshes, Due
<1>3. ASSUME UNCHANGED <<db, seen, net, told>> PROVE ProfileInv'
  BY <1>2, <1>3 DEF ProfileInv
<1>4. ASSUME NEW s \in Slots, NEW kind \in Account!Refreshing \cup Account!Quiet, NEW says,
      Account!Send(s, kind, says) PROVE ProfileInv'
  <2>1. PICK c : c = [kind |-> kind, says |-> says, step |-> "sent"]
    OBVIOUS
  <2>2. net' = [net EXCEPT ![s] = c] /\ UNCHANGED <<db, seen, told>> /\ net[s] = Account!Idle
    BY <1>4, <2>1 DEF Account!Send
  <2>3. s \notin Due(net) \cup Refreshes(net) /\ c.kind # "refresh"
    BY <2>1, <2>2, CallKinds DEF Due, Refreshes
  <2> QED
    BY <1>1, <2>2, <2>3, ProfileOther
<1>5. ASSUME NEW s \in Slots, Account!Page(s) PROVE ProfileInv'
  <2>1. \/ UNCHANGED <<db, seen, net, told>>
        \/ \E kind \in Account!Refreshing \cup Account!Quiet,
             says \in Texts \cup {None} : Account!Send(s, kind, says)
    <3>1. {"name", "email", "password", "avatar", "link", "unlink", "register"} \subseteq Account!Refreshing \cup Account!Quiet
          /\ {"device", "session", "renamePasskey", "deletePasskey"} \subseteq Account!Refreshing \cup Account!Quiet
      BY DEF Account!Refreshing, Account!Fields, Account!Quiet
    <3>2. ui.draft \in Texts \cup {None}
      BY DEF Account!TypeOK
    <3> HIDE DEF Account!Refreshing, Account!Quiet
    <3> DEFINE sends == \E kind \in Account!Refreshing \cup Account!Quiet,
      says \in Texts \cup {None} : Account!Send(s, kind, says)
    <3> DEFINE stays == UNCHANGED <<db, seen, net, told>>
    <3>3. \A d, t : Account!Dialog(d, t) => stays
      BY DEF Account!Dialog
    <3>4. \A kind \in Account!Refreshing \cup Account!Quiet : Account!mutateAsync(s, kind) => sends
      BY DEF Account!mutateAsync
    <3>5. CASE ui.dialog = "none"
          /\ (Account!BasicInfo(s) \/ Account!AccountSettings \/ Account!AccountLogs(s))
      BY <3>1, <3>3, <3>4, <3>5
        DEF Account!BasicInfo, Account!AccountSettings, Account!AccountLogs,
          Account!handleRemoveAvatar, Account!handleAvatarChange, Account!openNameDialog,
            Account!openEmailDialog,
            Account!handleDeleteSession
    <3>6. CASE Account!NameDialog(s) \/ Account!EmailDialog(s)
      BY <3>1, <3>2, <3>3, <3>6 DEF Account!NameDialog, Account!EmailDialog, Account!Type,
           Account!handleNameSave, Account!handleEmailSave
    <3>7. CASE Account!PasswordDialog(s) \/ Account!AddDeviceDialog(s)
          \/ Account!PasskeyNameDialog(s)
      BY <3>1, <3>3, <3>4, <3>7
        DEF Account!PasswordDialog, Account!AddDeviceDialog, Account!PasskeyNameDialog,
          Account!Type, Account!handlePasswordChange, Account!handleAddDevice,
            Account!handleRenamePasskey
    <3>8. CASE Account!SignInDialog(s)
      <4>1. Account!handleRegisterPasskey(s) => sends
        BY <3>1 DEF Account!handleRegisterPasskey
      <4> QED
        BY <3>1, <3>3, <3>4, <3>8, <4>1 DEF Account!SignInDialog, Account!handleUnlinkGoogle,
             Account!handleLinkGoogle, Account!handleDeletePasskey
    <3>9. CASE Account!onOpenChange
      BY <3>3, <3>9 DEF Account!onOpenChange
    <3> QED
      BY <1>5, <3>5, <3>6, <3>7, <3>8, <3>9 DEF Account!Page
  <2> QED
    BY <1>3, <1>4, <2>1
<1>6. ASSUME NEW s \in Slots, Account!ServerDoes(s), net[s].kind = "refresh" PROVE ProfileInv'
  <2>1. PICK c : c = [net[s] EXCEPT !.step = "done", !.says = db]
    OBVIOUS
  <2>2. net' = [net EXCEPT ![s] = c] /\ UNCHANGED <<db, seen, told>> /\ net[s] \in ProfileCalls
    BY <1>1, <1>6, <2>1 DEF Account!ServerDoes
  <2>3. c.kind = "refresh" /\ c.step = "done" /\ c.says = db
    BY <1>6, <2>1, <2>2 DEF ProfileCalls
  <2>4. \A t \in Slots : net'[t] = IF t = s THEN c ELSE net[t]
    BY <1>1, <2>2
  <2>5. Refreshes(net') = Refreshes(net)
    BY <1>6, <2>3, <2>4 DEF Refreshes
  <2>6. ReadBefore(seen', db')
    BY <2>2 DEF ProfileInv
  <2>7. ASSUME NEW t \in Refreshes(net'), net'[t].step = "done"
        PROVE net'[t].says \in Account!Profile /\ ReadBefore(net'[t].says, db')
    <3>1. t \in Slots /\ t \in Refreshes(net) /\ net'[t] = IF t = s THEN c ELSE net[t]
      BY <2>4, <2>5, <2>7 DEF Refreshes
    <3>2. CASE t = s
      BY <1>1, <2>2, <2>3, <3>1, <3>2, VersionsAre
    <3>3. CASE t # s
      BY <2>2, <2>7, <3>1, <3>3 DEF ProfileInv
    <3> QED
      BY <3>2, <3>3
  <2>8. s \in Refreshes(net') /\ Brings(net'[s], db')
    BY <1>6, <2>2, <2>3, <2>4 DEF Refreshes, Brings
  <2> QED
    BY <1>2, <2>6, <2>7, <2>8 DEF ProfileInv
<1>7. ASSUME NEW s \in Slots, Account!ServerDoes(s), net[s].kind # "refresh" PROVE ProfileInv'
  <2>1. PICK c : c = [net[s] EXCEPT !.step = "done"]
    OBVIOUS
  <2>2. net' = [net EXCEPT ![s] = c] /\ UNCHANGED <<seen, told>> /\ net[s] \in ProfileCalls
        /\ net[s].step = "sent"
    BY <1>1, <1>7, <2>1 DEF Account!ServerDoes
  <2>3. c.kind = net[s].kind /\ c.step = "done" /\ c # Account!Idle
    BY <2>1, <2>2, CallKinds DEF ProfileCalls
  <2>4. CASE Account!Changes(net[s].kind)
    <3>1. s \in Due(net')
      BY <1>1, <2>2, <2>3, <2>4 DEF Due
    <3>2. Refreshes(net') = Refreshes(net)
      BY <1>1, <2>2, <2>3 DEF Refreshes
    <3>3. db' = [name |-> db'.name, email |-> db'.email, version |-> db.version + 1]
      BY <1>7, <2>4 DEF Account!ServerDoes
    <3>4. ReadBefore(seen', db')
      <4>1. seen \in Account!Profile
        BY DEF Account!TypeOK
      <4> QED
        BY <1>1, <2>2, <3>3, <4>1, VersionsAre DEF ProfileInv
    <3>5. ASSUME NEW t \in Refreshes(net'), net'[t].step = "done"
          PROVE net'[t].says \in Account!Profile /\ ReadBefore(net'[t].says, db')
      <4>1. t \in Refreshes(net) /\ net'[t] = net[t]
        BY <1>1, <1>7, <2>2, <3>2, <3>5 DEF Refreshes
      <4>2. net[t].says \in Account!Profile /\ ReadBefore(net[t].says, db)
        BY <3>5, <4>1 DEF ProfileInv
      <4> QED
        BY <1>1, <3>3, <4>1, <4>2, VersionsAre
    <3> QED
      BY <1>2, <3>1, <3>4, <3>5 DEF ProfileInv
  <2>5. CASE ~Account!Changes(net[s].kind)
    <3>1. db' = [name |-> db.name, email |-> db.email, version |-> db.version]
      BY <1>7, <2>5 DEF Account!ServerDoes, Account!Changes, Account!Refreshing, Account!Fields
    <3>2. db' = db
      BY <1>1, <3>1 DEF Account!Profile
    <3>3. s \notin Due(net) \cup Refreshes(net)
      BY <1>7, <2>5 DEF Due, Refreshes
    <3> QED
      BY <1>1, <1>7, <2>2, <2>3, <3>2, <3>3, ProfileOther
  <2> QED
    BY <2>4, <2>5
<1>8. ASSUME NEW s \in Slots, Account!Succeeds(s) PROVE ProfileInv'
  <2>1. /\ net[s] # Account!Idle /\ net[s].step = "done" /\ net[s].kind # "refresh"
        /\ UNCHANGED <<db, seen>>
        /\ net' = [net EXCEPT ![s] = IF net[s].kind \in Account!Refreshing
                                     THEN [kind |-> "refresh", says |-> None, step |-> "sent"] ELSE Account!Idle]
        /\ told'.blurred = (net[s].kind = "deletePasskey"
             \/ (told.blurred /\ ~(net[s].kind \in Account!Refreshing /\ Account!Open({"refresh"}) = {})))
    BY <1>8 DEF Account!Succeeds, Account!SucceedsRefreshing
  <2>2. CASE net[s].kind \notin Account!Refreshing
    <3>1. net' = [net EXCEPT ![s] = Account!Idle] /\ Account!Idle.kind # "refresh"
      BY <2>1, <2>2, CallKinds
    <3>2. CASE net[s].kind # "deletePasskey"
      <4>1. s \notin Due(net) \cup Refreshes(net)
        BY <2>1, <2>2, <3>2 DEF Due, Refreshes, Account!Changes
      <4>2. told.blurred => told'.blurred
        BY <2>1, <2>2
      <4> QED
        BY <1>1, <2>1, <3>1, <4>1, <4>2, ProfileOther
    <3>3. CASE net[s].kind = "deletePasskey"
      <4>1. \A t \in Refreshes(net') : t \in Refreshes(net) /\ net'[t] = net[t]
        BY <1>1, <3>1 DEF Refreshes
      <4>2. told'.blurred
        BY <2>1, <3>3
      <4> QED
        BY <1>2, <2>1, <4>1, <4>2 DEF ProfileInv
    <3> QED
      BY <3>2, <3>3
  <2>3. CASE net[s].kind \in Account!Refreshing
    <3>1. PICK c : c = [kind |-> "refresh", says |-> None, step |-> "sent"]
      OBVIOUS
    <3>2. \A t \in Slots : net'[t] = IF t = s THEN c ELSE net[t]
      BY <1>1, <2>1, <2>3, <3>1
    <3>3. s \in Refreshes(net') /\ Brings(net'[s], db')
      BY <3>1, <3>2 DEF Refreshes, Brings
    <3>4. \A t \in Refreshes(net') : net'[t].step = "done" => t \in Refreshes(net) /\ net'[t] = net[t]
      BY <3>1, <3>2 DEF Refreshes
    <3> QED
      BY <1>2, <2>1, <3>3, <3>4 DEF ProfileInv
  <2> QED
    BY <2>2, <2>3
<1>9. ASSUME NEW s \in Slots, Account!Refreshed(s) PROVE ProfileInv'
  <2>1. /\ net[s].kind = "refresh" /\ net[s].step = "done" /\ seen' = net[s].says /\ UNCHANGED db
        /\ net' = [net EXCEPT ![s] = Account!Idle]
        /\ told' = [told EXCEPT !.blurred = told.blurred \/ net[s].says.version < seen.version]
    BY <1>9 DEF Account!Refreshed
  <2>2. s \in Refreshes(net) /\ net[s].says \in Account!Profile /\ ReadBefore(net[s].says, db)
    BY <2>1 DEF ProfileInv, Refreshes
  <2>3. \A t \in Slots : net'[t] = IF t = s THEN Account!Idle ELSE net[t]
    BY <1>1, <2>1
  <2>4. Due(net') = Due(net)
    BY <2>1, <2>3, CallKinds DEF Due
  <2>5. \A t \in Slots : t \in Refreshes(net') <=> t \in Refreshes(net) /\ t # s
    BY <2>3, CallKinds DEF Refreshes
  <2>6. Refreshes(net') \subseteq Slots /\ \A t \in Refreshes(net') : t \in Refreshes(net) /\ net'[t] = net[t]
    BY <2>3, <2>5 DEF Refreshes
  <2>7. /\ ReadBefore(seen', db')
        /\ \A t \in Refreshes(net') : net'[t].step = "done" => net'[t].says \in Account!Profile /\ ReadBefore(net'[t].says, db')
    BY <2>1, <2>2, <2>6 DEF ProfileInv
  <2>8. ASSUME ~told'.blurred, Due(net) = {}, seen' # db
        PROVE  \E t \in Refreshes(net') : Brings(net'[t], db')
    <3>1. ~told.blurred /\ ~(net[s].says.version < seen.version)
      BY <1>1, <2>1, <2>8
    <3>2. seen # db
      <4>1. seen \in Account!Profile
        BY DEF Account!TypeOK
      <4>2. ReadBefore(seen, db)
        BY DEF ProfileInv
      <4>3. seen = db => net[s].says.version = db.version
        BY <1>1, <2>2, <3>1, <4>1, VersionsAre DEF ReadBefore
      <4> QED
        BY <2>1, <2>2, <2>8, <4>3 DEF ReadBefore
    <3>3. PICK t \in Refreshes(net) : Brings(net[t], db)
      BY <2>8, <3>1, <3>2 DEF ProfileInv
    <3>4. t # s
      BY <2>1, <2>8, <3>3 DEF Brings
    <3>5. t \in Refreshes(net') /\ net'[t] = net[t]
      BY <2>5, <2>6, <3>3, <3>4 DEF Refreshes
    <3> QED
      BY <2>1, <3>3, <3>5
  <2> QED
    BY <1>2, <2>1, <2>4, <2>7, <2>8 DEF ProfileInv
<1>10. ASSUME NEW s \in Slots, Account!Fails(s) PROVE ProfileInv'
  <2>1. /\ net[s] # Account!Idle /\ net' = [net EXCEPT ![s] = Account!Idle]
        /\ UNCHANGED <<db, seen>>
        /\ told'.blurred = (told.blurred \/ net[s].kind = "refresh" \/ (net[s].step = "done" /\ Account!Changes(net[s].kind)))
    BY <1>10 DEF Account!Fails
  <2>2. CASE told'.blurred
    <3>1. \A t \in Refreshes(net') : t \in Refreshes(net) /\ net'[t] = net[t]
      BY <1>1, <2>1, CallKinds DEF Refreshes
    <3> QED
      BY <1>2, <2>1, <2>2, <3>1 DEF ProfileInv
  <2>3. CASE ~told'.blurred
    <3>1. s \notin Due(net) \cup Refreshes(net)
      BY <2>1, <2>3 DEF Due, Refreshes
    <3> QED
      BY <1>1, <2>1, <3>1, ProfileOther, CallKinds
  <2> QED
    BY <2>2, <2>3
<1> QED
  BY <1>5, <1>6, <1>7, <1>8, <1>9, <1>10 DEF Account!Next, Account!Answers

----------------------------------------------------------------------------
(* The captions: the list on the screen *)

\* A change of a video's subtitles that is done and has not been told to the page yet.
ChangedOf(v) ==
  \E s \in OneSlot : net[s].kind \in {"upload", "attach", "remove"} /\ net[s].id = v
    /\ net[s].step = "done"

\* What was read is the server's list, or a change is to be told, or the list is known
\* to be stale or old; a stale one on the screen is asked for.
ListOf(v) ==
  /\ net[v] # Captions!Idle /\ net[v].step = "done" /\ ~net[v].old => net[v].read = db[v]
       \/ ChangedOf(v)
  /\ seen[v].loaded /\ ~seen[v].old => seen[v].subtitles = db[v] \/ ChangedOf(v) \/ seen[v].stale
  /\ ui.video = v /\ seen[v].stale => net[v] # Captions!Idle

ListInv == \A v \in Videos : ListOf(v)

LEMMA InitList == ASSUME None \notin Videos, Captions!Init PROVE ListInv
<1>1. \A v \in Videos : seen[v] = Captions!Unread /\ net[v] = Captions!Idle /\ ui.video # v
  BY DEF Captions!Init
<1> QED
  BY <1>1 DEF ListInv, ListOf, Captions!Unread

\* With nothing open it is what is claimed.
LEMMA ListOfInv == ASSUME ListInv, ui.open => ui.video \in Videos PROVE Captions!ListIsShown
<1>1. SUFFICES ASSUME ui.open, seen[ui.video].loaded, ~seen[ui.video].old,
      \A x \in OneSlot \cup Videos : net[x] = Captions!Idle
               PROVE  seen[ui.video].subtitles = db[ui.video]
  BY DEF Captions!ListIsShown
<1>2. PICK v \in Videos : v = ui.video
  BY <1>1
<1>3. ~ChangedOf(v)
  BY <1>1 DEF ChangedOf, Captions!Idle
<1>4. ListOf(v)
  BY DEF ListInv
<1> QED
  BY <1>1, <1>2, <1>3, <1>4 DEF ListOf

\* What the types say of requests and mutations.
ListTypes ==
  /\ OneSlot \cap Videos = {} /\ None \notin Videos
  /\ net \in [OneSlot \cup Videos -> {Captions!Idle} \cup Fetch \cup Mutation]
  /\ ui \in [video: Videos \cup {None}, open: BOOLEAN, query: BOOLEAN, searchEnabled: BOOLEAN, label: BOOLEAN]
  /\ db \in [Videos -> SUBSET OneText] /\ seen \in [Videos -> Marked]
  /\ \A v \in Videos : net[v] \in {Captions!Idle} \cup Fetch
  /\ \A s \in OneSlot : net[s] \in {Captions!Idle} \cup Mutation

LEMMA ListKinds ==
  /\ Captions!Idle.kind = "idle" /\ \A x \in Fetch : x # Captions!Idle
  /\ \A x \in Mutation : x # Captions!Idle
  /\ Captions!Request \in Fetch /\ Captions!Request.step = "sent" /\ ~Captions!Request.old
BY DEF Captions!Idle, Fetch, Mutation, Captions!Request

\* The request for one list, or one slot, changes; no list is read.
LEMMA ListStep ==
  ASSUME ListInv, UNCHANGED <<db, seen>>,
         \A v \in Videos :
           /\ net'[v] = net[v] \/ (net'[v] # Captions!Idle /\ (net'[v].step = "done" => net'[v].old \/ net'[v].read = db[v]))
           /\ ui'.video = v => ui.video = v \/ (seen[v].stale => net'[v] # Captions!Idle)
           /\ ChangedOf(v) => ChangedOf(v)'
  PROVE  ListInv'
BY DEF ListInv, ListOf

\* A slot that holds no change done is filled or emptied.
LEMMA ListSlot ==
  ASSUME ListInv, ListTypes, UNCHANGED <<db, seen>>, ui'.video = ui.video, NEW s \in OneSlot,
         net[s] = Captions!Idle \/ net[s].step = "sent", NEW c, net' = [net EXCEPT ![s] = c]
  PROVE  ListInv'
<1>1. \A x \in OneSlot \cup Videos : x # s => net'[x] = net[x]
  BY DEF ListTypes
<1>2. \A v \in Videos : net'[v] = net[v]
  BY <1>1 DEF ListTypes
<1>3. ASSUME NEW v \in Videos, ChangedOf(v) PROVE ChangedOf(v)'
  <2>1. PICK t \in OneSlot : net[t].kind \in {"upload", "attach", "remove"} /\ net[t].id = v
        /\ net[t].step = "done"
    BY <1>3 DEF ChangedOf
  <2>2. t # s
    BY <2>1, ListKinds
  <2> QED
    BY <1>1, <2>1, <2>2 DEF ChangedOf
<1> QED
  BY <1>2, <1>3, ListStep


LEMMA NextList == ASSUME ListTypes, ListInv, Captions!Next PROVE ListInv'
<1>0. \A s \in OneSlot, v \in Videos : s # v
  BY DEF ListTypes
<1>1. ASSUME NEW v \in Videos, Captions!Show(v) PROVE ListInv'
  <2>1. PICK c : c = IF seen[v].stale /\ net[v] = Captions!Idle THEN Captions!Request ELSE net[v]
    OBVIOUS
  <2>2. ui'.video = v
    BY <1>1 DEF Captions!Show, ListTypes
  <2>3. net' = [net EXCEPT ![v] = c] /\ UNCHANGED <<db, seen>>
    BY <1>1, <2>1 DEF Captions!Show
  <2>4. \A x \in OneSlot \cup Videos : net'[x] = IF x = v THEN c ELSE net[x]
    BY <2>3 DEF ListTypes
  <2>5. c = net[v] \/ (c # Captions!Idle /\ c.step # "done")
    BY <2>1, ListKinds
  <2>6. seen[v].stale => c # Captions!Idle
    BY <2>1, ListKinds
  <2>7. \A w \in Videos : ChangedOf(w) => ChangedOf(w)'
    BY <1>0, <2>4 DEF ChangedOf
  <2> QED
    BY <2>2, <2>3, <2>4, <2>5, <2>6, <2>7, ListStep
<1>2. ASSUME NEW v \in Videos, Captions!Fetched(v) PROVE ListInv'
  <2>1. PICK c : c = [net[v] EXCEPT !.read = db[v], !.step = "done"]
    OBVIOUS
  <2>2. net' = [net EXCEPT ![v] = c] /\ net[v] \in Fetch /\ UNCHANGED <<db, seen, ui>>
    BY <1>2, <2>1 DEF Captions!Fetched, ListTypes
  <2>3. c # Captions!Idle /\ c.read = db[v]
    BY <2>1, <2>2, ListKinds DEF Fetch
  <2>4. \A x \in OneSlot \cup Videos : net'[x] = IF x = v THEN c ELSE net[x]
    BY <2>2 DEF ListTypes
  <2>5. \A w \in Videos : ChangedOf(w) => ChangedOf(w)'
    BY <1>0, <2>4 DEF ChangedOf
  <2> QED
    BY <2>2, <2>3, <2>4, <2>5, ListStep
<1>3. ASSUME NEW v \in Videos, Captions!Arrives(v) PROVE ListInv'
  <2>1. /\ net[v] # Captions!Idle /\ net[v].step = "done" /\ UNCHANGED <<db, ui>>
        /\ net' = [net EXCEPT ![v] = Captions!Idle]
    BY <1>3 DEF Captions!Arrives
  <2>2. PICK m : m = [loaded |-> TRUE, subtitles |-> net[v].read, stale |-> FALSE, old |-> net[v].old]
    OBVIOUS
  <2>3. \A w \in Videos : seen'[w] = IF w = v THEN m ELSE seen[w]
    BY <1>3, <2>2 DEF Captions!Arrives, ListTypes
  <2>4. \A x \in OneSlot \cup Videos : net'[x] = IF x = v THEN Captions!Idle ELSE net[x]
    BY <2>1 DEF ListTypes
  <2>5. \A w \in Videos : ChangedOf(w) => ChangedOf(w)'
    BY <1>0, <2>4 DEF ChangedOf
  <2>6. ASSUME NEW w \in Videos PROVE ListOf(w)'
    <3>1. ListOf(w) /\ ListOf(v)
      BY DEF ListInv
    <3>2. CASE w = v
      <4>1. seen'[w] = m /\ net'[w] = Captions!Idle
        BY <2>3, <2>4, <3>2
      <4>2. ~m.old => m.subtitles = db[w] \/ ChangedOf(w)'
        BY <2>1, <2>2, <2>5, <3>1, <3>2 DEF ListOf
      <4>3. ~m.stale
        BY <2>2
      <4> QED
        BY <2>1, <4>1, <4>2, <4>3 DEF ListOf
    <3>3. CASE w # v
      <4>1. seen'[w] = seen[w] /\ net'[w] = net[w]
        BY <2>3, <2>4, <3>3
      <4> QED
        BY <2>1, <2>5, <3>1, <4>1 DEF ListOf
    <3> QED
      BY <3>2, <3>3
  <2> QED
    BY <2>6 DEF ListInv
<1>4. ASSUME NEW next, Captions!OnScreen(next), next.video = ui.video PROVE ListInv'
  <2>1. ui'.video = ui.video /\ UNCHANGED <<db, seen, net>>
    BY <1>4 DEF Captions!OnScreen
  <2>2. \A v \in Videos : ChangedOf(v)' = ChangedOf(v)
    BY <2>1 DEF ChangedOf
  <2> QED
    BY <2>1, <2>2, ListStep
<1>5. CASE Captions!OnScreen([ui EXCEPT !.open = FALSE])
  <2>1. [ui EXCEPT !.open = FALSE].video = ui.video
    BY DEF ListTypes
  <2> QED
    BY <1>4, <1>5, <2>1
<1>6. ASSUME NEW s \in OneSlot, Captions!ThumbnailSelector(s) \/ Captions!CaptionTab(s)
      PROVE ListInv'
  <2>1. ASSUME NEW kind, NEW what, Captions!mutateAsync(s, kind, what) PROVE ListInv'
    <3>1. PICK c : c = [kind |-> kind, id |-> ui.video, what |-> what, step |-> "sent"]
      OBVIOUS
    <3>2. net[s] = Captions!Idle /\ net' = [net EXCEPT ![s] = c] /\ UNCHANGED <<db, seen>>
          /\ ui'.video = ui.video
      BY <2>1, <3>1 DEF Captions!mutateAsync
    <3> QED
      BY <3>2, ListSlot
  <2>2. ASSUME NEW b \in BOOLEAN, Captions!OnScreen([ui EXCEPT !.label = b]) PROVE ListInv'
    <3>1. [ui EXCEPT !.label = b].video = ui.video
      BY DEF ListTypes
    <3> QED
      BY <1>4, <2>2, <3>1
  <2>3. ASSUME NEW b \in BOOLEAN,
        Captions!OnScreen([ui EXCEPT !.query = b, !.searchEnabled = FALSE]) PROVE ListInv'
    <3>1. [ui EXCEPT !.query = b, !.searchEnabled = FALSE].video = ui.video
      BY DEF ListTypes
    <3> QED
      BY <1>4, <2>3, <3>1
  <2>4. ASSUME Captions!OnScreen([ui EXCEPT !.searchEnabled = TRUE]) PROVE ListInv'
    <3>1. [ui EXCEPT !.searchEnabled = TRUE].video = ui.video
      BY DEF ListTypes
    <3> QED
      BY <1>4, <2>4, <3>1
  <2>5. CASE Captions!ThumbnailSelector(s)
    BY <2>1, <2>5 DEF Captions!ThumbnailSelector, Captions!handleUploadThumbnail,
         Captions!handleSelectThumbnail
  <2>6. CASE Captions!AttachedSubtitles(s) \/ Captions!SearchResults(s)
    BY <2>1, <2>6 DEF Captions!AttachedSubtitles, Captions!SearchResults
  <2>7. CASE Captions!UploadSubtitle(s)
    BY <2>1, <2>2, <2>7 DEF Captions!UploadSubtitle
  <2>8. CASE Captions!SearchSubtitles
    BY <2>3, <2>4, <2>8 DEF Captions!SearchSubtitles
  <2> QED
    BY <1>6, <2>5, <2>6, <2>7, <2>8 DEF Captions!CaptionTab
<1>7. ASSUME NEW s \in OneSlot, Captions!ServerDoes(s) PROVE ListInv'
  <2>1. PICK c : c = [net[s] EXCEPT !.step = "done"]
    OBVIOUS
  <2>2. net[s] \in Mutation /\ net' = [net EXCEPT ![s] = c] /\ UNCHANGED <<seen, ui>>
    BY <1>7, <2>1 DEF Captions!ServerDoes, ListTypes
  <2>3. PICK v \in Videos : v = net[s].id
    BY <2>2 DEF Mutation
  <2>4. c.kind = net[s].kind /\ c.id = v /\ c.step = "done"
    BY <2>1, <2>2, <2>3 DEF Mutation
  <2>5. \A x \in OneSlot \cup Videos : net'[x] = IF x = s THEN c ELSE net[x]
    BY <2>2 DEF ListTypes
  <2>6. \A w \in Videos : net'[w] = net[w]
    BY <1>0, <2>5
  <2>7. ASSUME NEW w \in Videos, ChangedOf(w) PROVE ChangedOf(w)'
    <3>1. PICK t \in OneSlot : net[t].kind \in {"upload", "attach", "remove"} /\ net[t].id = w
          /\ net[t].step = "done"
      BY <2>7 DEF ChangedOf
    <3>2. net[s].step = "sent"
      BY <1>7 DEF Captions!ServerDoes
    <3>3. t # s
      BY <3>1, <3>2
    <3> QED
      BY <2>5, <3>1, <3>3 DEF ChangedOf
  <2>8. \A w \in Videos : db'[w] = db[w] \/ ChangedOf(w)'
    <3>1. CASE net[s].kind \in {"upload", "attach", "remove"}
      <4>1. PICK D : db' = [db EXCEPT ![v] = D]
        BY <1>7, <2>3, <3>1 DEF Captions!ServerDoes
      <4>2. \A w \in Videos : w # v => db'[w] = db[w]
        BY <4>1 DEF ListTypes
      <4>3. ChangedOf(v)'
        BY <2>4, <2>5, <3>1 DEF ChangedOf
      <4> QED
        BY <4>2, <4>3
    <3>2. CASE net[s].kind \notin {"upload", "attach", "remove"}
      <4>1. db' = db
        BY <1>7, <3>2 DEF Captions!ServerDoes
      <4> QED
        BY <4>1
    <3> QED
      BY <3>1, <3>2
  <2>9. ASSUME NEW w \in Videos PROVE ListOf(w)'
    <3>1. ListOf(w) /\ (ChangedOf(w) => ChangedOf(w)')
      BY <2>7 DEF ListInv
    <3>2. net'[w] = net[w] /\ (db'[w] = db[w] \/ ChangedOf(w)')
      BY <2>6, <2>8
    <3> QED
      BY <2>2, <3>1, <3>2 DEF ListOf
  <2> QED
    BY <2>9 DEF ListInv
<1>8. ASSUME NEW s \in OneSlot, Captions!Succeeds(s) PROVE ListInv'
  <2>1. net[s] \in Mutation /\ net[s].step = "done" /\ db' = db
    BY <1>8 DEF Captions!Succeeds, ListTypes
  <2>2. PICK v \in Videos, hits \in BOOLEAN : v = net[s].id
        /\ (hits <=> net[s].kind \in {"upload", "attach", "remove"})
    <3>1. net[s].id \in Videos
      BY <2>1 DEF Mutation
    <3>2. CASE net[s].kind \in {"upload", "attach", "remove"}
      BY <3>1, <3>2
    <3>3. CASE net[s].kind \notin {"upload", "attach", "remove"}
      BY <3>1, <3>3
    <3> QED
      BY <3>2, <3>3
  <2>3. ui'.video = ui.video
    BY <1>8 DEF Captions!Succeeds, ListTypes
  <2>4. /\ seen' = IF hits THEN [seen EXCEPT ![v].stale = TRUE] ELSE seen
        /\ net' = [x \in OneSlot \cup Videos |-> IF x = s THEN Captions!Idle ELSE IF hits /\ x = v THEN Captions!Refetch(v) ELSE net[x]]
    BY <1>8, <2>2 DEF Captions!Succeeds, Captions!InvalidatesOf
  <2>5. PICK c : c = Captions!Refetch(v)
    OBVIOUS
  <2>6. \A x \in OneSlot \cup Videos :
          net'[x] = IF x = s THEN Captions!Idle ELSE IF hits /\ x = v THEN c ELSE net[x]
    BY <2>4, <2>5
  <2>7. ASSUME NEW w \in Videos, ~hits \/ w # v, ChangedOf(w) PROVE ChangedOf(w)'
    <3>1. PICK t \in OneSlot : net[t].kind \in {"upload", "attach", "remove"} /\ net[t].id = w
          /\ net[t].step = "done"
      BY <2>7 DEF ChangedOf
    <3>2. t # s
      BY <2>2, <2>7, <3>1
    <3>3. net'[t] = net[t]
      BY <1>0, <2>6, <3>2
    <3> QED
      BY <3>1, <3>3 DEF ChangedOf
  <2>8. ASSUME NEW w \in Videos, ~hits \/ w # v PROVE ListOf(w)'
    <3>1. net'[w] = net[w] /\ seen'[w] = seen[w]
      BY <1>0, <2>4, <2>6, <2>8 DEF ListTypes
    <3>2. ListOf(w)
      BY DEF ListInv
    <3> QED
      BY <2>1, <2>3, <2>7, <2>8, <3>1, <3>2 DEF ListOf
  <2>9. ASSUME hits PROVE ListOf(v)'
    <3>1. seen'[v] = [seen[v] EXCEPT !.stale = TRUE] /\ seen[v] \in Marked
      BY <2>4, <2>9 DEF ListTypes
    <3>2. seen'[v].stale
      BY <3>1 DEF Marked
    <3>3. net'[v] = c
      BY <1>0, <2>6, <2>9
    <3>4. net[v] \in {Captions!Idle} \cup Fetch
      BY DEF ListTypes
    <3>5. c # Captions!Idle /\ c.step = "done" => c.old
      <4>1. CASE c = Captions!Request
        BY <4>1, ListKinds
      <4>2. CASE c # Captions!Request /\ c # Captions!Idle
        <5>1. net[v] # Captions!Idle
              /\ c = [net[v] EXCEPT !.old = net[v].old \/ net[v].step = "done"]
          BY <2>5, <4>2 DEF Captions!Refetch
        <5> QED
          BY <3>4, <5>1 DEF Fetch
      <4> QED
        BY <4>1, <4>2
    <3>6. ui.video = v => c # Captions!Idle
      <4>1. SUFFICES ASSUME ui.video = v, c = Captions!Idle PROVE FALSE
        OBVIOUS
      <4>2. net[v] # Captions!Idle /\ c = [net[v] EXCEPT !.old = net[v].old \/ net[v].step = "done"]
        BY <2>5, <4>1, ListKinds DEF Captions!Refetch
      <4>3. c.kind = "fetch"
        BY <3>4, <4>2 DEF Fetch
      <4> QED
        BY <4>1, <4>3, ListKinds
    <3> QED
      BY <2>3, <3>2, <3>3, <3>5, <3>6 DEF ListOf
  <2> QED
    BY <2>2, <2>8, <2>9 DEF ListInv
<1>9. ASSUME NEW s \in OneSlot, Captions!Fails(s) PROVE ListInv'
  BY <1>9, ListSlot DEF Captions!Fails
<1> QED
  BY <1>1, <1>2, <1>3, <1>5, <1>6, <1>7, <1>8, <1>9 DEF Captions!Next

----------------------------------------------------------------------------
(* What the panels add up to *)

AnalyticsSound == None \notin Analytics!Answer /\ 30 \in Periods /\ MaxRows \in Nat

\* An answer is kept under the key of its period, and is of rows there were.
AnalyticsInv ==
  /\ Analytics!TypeOK
  /\ \A k \in Analytics!Keys : seen[k] # None => seen[k].of = k[2] /\ seen[k].rows <= Len(db)

\* A sum in any order: W is what is added up so far.
LEMMA SumIs ==
  ASSUME NEW f, IsFiniteSet(DOMAIN f), NEW W, W[{}] = 0,
         \A S \in SUBSET DOMAIN f : \A x \in S : W[S] = f[x] + W[S \ {x}]
  PROVE  Analytics!Total(f) = W[DOMAIN f]
<1> DEFINE D == DOMAIN f
           adds(g, S) == IF S = {} THEN 0 ELSE LET x == CHOOSE x \in S : TRUE IN f[x] + g[S \ {x}]
           all(g) == [S \in SUBSET D |-> adds(g, S)]
           found == [S \in SUBSET D |-> W[S]]
<1>1. PICK sum : sum = CHOOSE g : g = all(g)
  OBVIOUS
<1>2. Analytics!Total(f) = sum[D]
  <2>1. Analytics!Total(f) = (CHOOSE g : g = all(g))[D]
    BY DEF Analytics!Total
  <2> HIDE DEF all
  <2> QED
    BY <1>1, <2>1
<1>3. ASSUME NEW g, NEW S, S # {}  PROVE \E x \in S : adds(g, S) = f[x] + g[S \ {x}]
  <2>1. PICK x : x = CHOOSE y \in S : TRUE
    OBVIOUS
  <2>2. x \in S
    BY <1>3, <2>1
  <2> QED
    BY <1>3, <2>1, <2>2
<1>4. \A g : adds(g, {}) = 0
  OBVIOUS
<1> HIDE DEF adds
<1>5. ASSUME NEW S \in SUBSET D  PROVE found[S] = adds(found, S)
  <2>1. CASE S = {}
    BY <1>4, <2>1
  <2>2. CASE S # {}
    <3>1. PICK g : g = found
      OBVIOUS
    <3>2. PICK x \in S : adds(g, S) = f[x] + g[S \ {x}]
      BY <1>3, <2>2
    <3>3. S \ {x} \in SUBSET D /\ g[S \ {x}] = W[S \ {x}] /\ g[S] = W[S]
      BY <3>1
    <3>4. W[S] = f[x] + W[S \ {x}]
      OBVIOUS
    <3>5. g[S] = adds(g, S)
      BY <3>2, <3>3, <3>4
    <3> QED
      BY <3>1, <3>5
  <2> QED
    BY <2>1, <2>2
<1>6. sum = all(sum)
  <2>1. PICK g : g = found
    OBVIOUS
  <2>2. g = all(g)
    BY <1>5, <2>1
  <2> HIDE DEF all
  <2> QED
    BY <1>1, <2>2
<1>7. \A S \in SUBSET D : sum[S] = adds(sum, S)
  <2>1. PICK g : g = sum
    OBVIOUS
  <2>2. \A S \in SUBSET D : sum[S] = adds(g, S)
    BY <1>6, <2>1
  <2> QED
    BY <2>1, <2>2
<1> DEFINE wrong == {S \in SUBSET D : sum[S] # W[S]}
           sizes == {Cardinality(S) : S \in wrong}
<1>8. ASSUME NEW S \in SUBSET D  PROVE IsFiniteSet(S) /\ Cardinality(S) \in Nat
  BY FS_Subset, FS_CardinalityType
<1>9. wrong = {}
  <2> SUFFICES ASSUME wrong # {}  PROVE FALSE
    OBVIOUS
  <2>1. sizes \subseteq Nat /\ sizes # {}
    BY <1>8
  <2> HIDE DEF sizes
  <2>2. PICK n \in sizes : \A m \in sizes : ~(<<m, n>> \in OpToRel(<, Nat))
    BY <2>1, NatLessThanWellFounded, WFMin
  <2>3. n \in Nat /\ \A m \in sizes : ~(m < n)
    BY <2>1, <2>2 DEF OpToRel
  <2>4. PICK S \in wrong : n = Cardinality(S)
    BY DEF sizes
  <2>5. S # {}
    BY <1>4, <1>7, <2>4
  <2>6. PICK x \in S : adds(sum, S) = f[x] + sum[S \ {x}]
    BY <1>3, <2>5
  <2>7. x \in S /\ sum[S] = f[x] + sum[S \ {x}]
    BY <1>7, <2>4, <2>6
  <2>8. S \ {x} \in SUBSET D /\ Cardinality(S \ {x}) = n - 1
    BY <1>8, <2>4, <2>7, FS_RemoveElement
  <2>9. S \ {x} \notin wrong
    <3>1. ASSUME S \ {x} \in wrong  PROVE n - 1 \in sizes
      BY <2>8, <3>1 DEF sizes
    <3>2. n - 1 < n
      BY <2>3
    <3> QED
      BY <2>3, <3>1, <3>2
  <2>10. sum[S \ {x}] = W[S \ {x}]
    BY <2>8, <2>9
  <2>11. W[S] = f[x] + W[S \ {x}]
    BY <2>7
  <2> QED
    BY <2>4, <2>7, <2>10, <2>11
<1> QED
  BY <1>2, <1>9

\* Rows counted by what k says of them add up to the rows.
LEMMA CountedByKind ==
  ASSUME NEW V, IsFiniteSet(V), NEW k, NEW f, DOMAIN f = {k[i] : i \in V},
         \A d \in DOMAIN f : f[d] = Cardinality({i \in V : k[i] = d})
  PROVE  Analytics!Total(f) = Cardinality(V)
<1> DEFINE part(S) == {i \in V : k[i] \in S}
           W == [S \in SUBSET DOMAIN f |-> Cardinality(part(S))]
<1>1. IsFiniteSet(DOMAIN f)
  <2>1. IsFiniteSet({k[i] : i \in V})
    <3>1. PICK h : h = [i \in V |-> k[i]]
      OBVIOUS
    <3>2. {k[i] : i \in V} = {h[i] : i \in V}
      BY <3>1
    <3>3. h \in Surjection(V, {k[i] : i \in V})
      BY <3>1 DEF Surjection
    <3> QED
      BY <3>3, FS_Surjection
  <2> QED
    BY <2>1
<1>2. W[{}] = 0
  <2>1. part({}) = {}
    OBVIOUS
  <2> QED
    BY <2>1, FS_EmptySet
<1>3. ASSUME NEW S \in SUBSET DOMAIN f, NEW x \in S  PROVE W[S] = f[x] + W[S \ {x}]
  <2>1. PICK A : A = {i \in V : k[i] = x}
    OBVIOUS
  <2>2. PICK B : B = part(S \ {x})
    OBVIOUS
  <2>3. A \cup B = part(S) /\ A \cap B = {}
    BY <2>1, <2>2
  <2>4. IsFiniteSet(A) /\ IsFiniteSet(B)
    BY <2>1, <2>2, FS_Subset
  <2>5. Cardinality(A \cup B) = Cardinality(A) + Cardinality(B)
    <3>1. Cardinality(A \cup B) = Cardinality(A) + Cardinality(B) - Cardinality(A \cap B)
      BY <2>4, FS_Union
    <3>2. Cardinality(A \cap B) = 0
      BY <2>3, FS_EmptySet
    <3>3. Cardinality(A) \in Nat /\ Cardinality(B) \in Nat
      BY <2>4, FS_CardinalityType
    <3> QED
      BY <3>1, <3>2, <3>3
  <2>6. W[S] = Cardinality(A \cup B) /\ W[S \ {x}] = Cardinality(B) /\ f[x] = Cardinality(A)
    BY <2>1, <2>2, <2>3
  <2> QED
    BY <2>5, <2>6
<1>4. W[DOMAIN f] = Cardinality(V)
  <2>1. part(DOMAIN f) = V
    OBVIOUS
  <2> QED
    BY <2>1
<1> HIDE DEF W
<1>5. Analytics!Total(f) = W[DOMAIN f]
  BY <1>1, <1>2, <1>3, SumIs
<1> QED
  BY <1>4, <1>5

----------------------------------------------------------------------------
(* The cache and the panels *)

\* At the start nothing is cached.
LEMMA AnalyticsStarts == ASSUME AnalyticsSound, Analytics!Init PROVE AnalyticsInv
<1>1. db \in Seq(Analytics!Row) /\ Len(db) <= MaxRows
  BY DEF Analytics!Init, AnalyticsSound
<1>2. net \subseteq Analytics!Keys
  BY DEF Analytics!Init, AnalyticsSound, Analytics!Key, Analytics!Keys, Analytics!Queries,
       Analytics!Panels
<1> QED
  BY <1>1, <1>2 DEF Analytics!Init, AnalyticsSound, AnalyticsInv, Analytics!TypeOK

\* What holds of each key and of the rows is kept.
LEMMA CacheGrows ==
  ASSUME AnalyticsSound, AnalyticsInv, db' \in Seq(Analytics!Row), Len(db) <= Len(db'),
         Len(db') <= MaxRows,
         ui' \in Periods, net' \subseteq Analytics!Keys, told' = told,
         seen' = seen \/ \E k \in Analytics!Keys : seen' = [seen EXCEPT ![k] = [rows |-> Len(db), of |-> k[2]]]
  PROVE  AnalyticsInv'
<1>1. Len(db) \in Nat /\ Len(db') \in Nat /\ Len(db) <= MaxRows /\ MaxRows \in Nat
  BY DEF AnalyticsInv, Analytics!TypeOK, AnalyticsSound
<1>2. \A k \in Analytics!Keys : /\ seen[k] \in Analytics!Answer \cup {None}
                                /\ seen[k] # None => seen[k].of = k[2] /\ seen[k].rows <= Len(db)
  BY DEF AnalyticsInv, Analytics!TypeOK
<1>3. \A k \in Analytics!Keys : seen[k] # None => seen[k].rows \in Nat /\ seen[k].rows <= Len(db')
  <2>1. ASSUME NEW k \in Analytics!Keys, seen[k] # None
        PROVE  seen[k].rows \in Nat /\ seen[k].rows <= Len(db)
    <3>1. seen[k] \in Analytics!Answer /\ seen[k].rows <= Len(db)
      BY <1>2, <2>1
    <3>2. seen[k].rows \in 0..MaxRows
      BY <3>1 DEF Analytics!Answer
    <3> QED
      BY <1>1, <3>1, <3>2
  <2> QED
    BY <1>1, <2>1
<1>4. CASE seen' = seen
  BY <1>2, <1>3, <1>4 DEF AnalyticsInv, Analytics!TypeOK
<1>5. ASSUME NEW k \in Analytics!Keys, seen' = [seen EXCEPT ![k] = [rows |-> Len(db), of |-> k[2]]]
      PROVE  AnalyticsInv'
  <2>1. PICK a : a = [rows |-> Len(db), of |-> k[2]]
    OBVIOUS
  <2>2. k[2] \in Periods
    BY DEF Analytics!Keys
  <2>3. a \in Analytics!Answer /\ a.of = k[2] /\ a.rows <= Len(db')
    BY <1>1, <2>1, <2>2 DEF Analytics!Answer
  <2>4. seen \in [Analytics!Keys -> Analytics!Answer \cup {None}] /\ seen' = [seen EXCEPT ![k] = a]
    BY <1>5, <2>1 DEF AnalyticsInv, Analytics!TypeOK
  <2>5. seen' \in [Analytics!Keys -> Analytics!Answer \cup {None}]
        /\ \A j \in Analytics!Keys : seen'[j] = IF j = k THEN a ELSE seen[j]
    BY <2>3, <2>4
  <2>6. \A j \in Analytics!Keys : seen'[j] # None => seen'[j].of = j[2] /\ seen'[j].rows <= Len(db')
    BY <1>2, <1>3, <2>3, <2>5
  <2> QED
    BY <2>5, <2>6 DEF AnalyticsInv, Analytics!TypeOK
<1> QED
  BY <1>4, <1>5

\* Every step keeps the invariant.
LEMMA AnalyticsStep == ASSUME AnalyticsSound, AnalyticsInv, Analytics!Next PROVE AnalyticsInv'
<1>1. /\ db \in Seq(Analytics!Row) /\ Len(db) \in Nat /\ Len(db) <= MaxRows /\ MaxRows \in Nat
      /\ ui \in Periods /\ net \subseteq Analytics!Keys /\ told \in Analytics!Panels
  BY DEF AnalyticsInv, Analytics!TypeOK, AnalyticsSound
<1>2. \A q \in {"overview", told} : \A period \in Periods :
        Analytics!Key(q, period) \in Analytics!Keys /\ Analytics!Key(q, period)[2] = period
  BY <1>1 DEF Analytics!Key, Analytics!Keys, Analytics!Queries
<1>3. CASE Analytics!setPeriod
  BY <1>1, <1>2, <1>3, CacheGrows DEF Analytics!setPeriod, Analytics!Asked
<1>4. CASE Analytics!Inserted
  <2>1. PICK row \in Analytics!Row : db' = Append(db, row)
    BY <1>4 DEF Analytics!Inserted
  <2>2. db' \in Seq(Analytics!Row) /\ Len(db') = Len(db) + 1
    BY <1>1, <2>1
  <2>3. Len(db) <= Len(db') /\ Len(db') <= MaxRows
    BY <1>1, <1>4, <2>2 DEF Analytics!Inserted
  <2> QED
    BY <1>1, <1>4, <2>2, <2>3, CacheGrows DEF Analytics!Inserted
<1>5. ASSUME NEW q \in {"overview", told}, NEW period \in Periods,
             Analytics!Fails(q) \/ Analytics!EndsLate(q, period) \/ Analytics!Arrives(q)
      PROVE  AnalyticsInv'
  <2>1. CASE Analytics!Fails(q)
    BY <1>1, <2>1, CacheGrows DEF Analytics!Fails
  <2>2. CASE Analytics!EndsLate(q, period)
    BY <1>1, <1>2, <2>2, CacheGrows DEF Analytics!EndsLate
  <2>3. CASE Analytics!Arrives(q)
    <3>1. PICK k : k = Analytics!Key(q, ui)
      OBVIOUS
    <3>2. k \in Analytics!Keys /\ k[2] = ui
      BY <1>1, <1>2, <3>1
    <3>3. seen' = [seen EXCEPT ![k] = [rows |-> Len(db), of |-> k[2]]]
      BY <2>3, <3>1, <3>2 DEF Analytics!Arrives
    <3>4. db' = db /\ ui' = ui /\ told' = told /\ net' \subseteq Analytics!Keys
      BY <1>1, <2>3 DEF Analytics!Arrives
    <3>5. db' \in Seq(Analytics!Row) /\ Len(db) <= Len(db') /\ Len(db') <= MaxRows
          /\ ui' \in Periods
      BY <1>1, <3>4
    <3>6. \E j \in Analytics!Keys : seen' = [seen EXCEPT ![j] = [rows |-> Len(db), of |-> j[2]]]
      BY <3>2, <3>3
    <3> QED
      BY <3>4, <3>5, <3>6, CacheGrows
  <2> QED
    BY <1>5, <2>1, <2>2, <2>3
<1> QED
  BY <1>1, <1>3, <1>4, <1>5 DEF Analytics!Next

\* The rows of a period are finitely many, and the views among them no more.
LEMMA ViewsCounted ==
  ASSUME NEW rows \in Seq(Analytics!Row), NEW period
  PROVE  /\ IsFiniteSet(Analytics!Views(rows, period))
         /\ Cardinality(Analytics!Views(rows, period)) \in Nat
         /\ Cardinality(Analytics!Views(rows, period)) <= Cardinality(Analytics!Within(rows, period))
<1>1. IsFiniteSet(DOMAIN rows)
  <2>1. DOMAIN rows = 1 .. Len(rows) /\ Len(rows) \in Nat
    OBVIOUS
  <2> QED
    BY <2>1, FS_Interval
<1>2. Analytics!Within(rows, period) \subseteq DOMAIN rows
      /\ Analytics!Views(rows, period) \subseteq Analytics!Within(rows, period)
  BY DEF Analytics!Within, Analytics!Views
<1>3. IsFiniteSet(Analytics!Within(rows, period))
  BY <1>1, <1>2, FS_Subset
<1> QED
  BY <1>2, <1>3, FS_Subset, FS_CardinalityType

\* The page counts with the same Cardinality.
LEMMA PageCounts == \A S : Analytics!Cardinality(S) = Cardinality(S)
BY DEF Analytics!Cardinality, Cardinality

\* A panel that shows the rows of the card shows them for the card's period.
LEMMA SameShown ==
  ASSUME AnalyticsSound, AnalyticsInv, NEW q \in Analytics!Panels,
         Analytics!Data("overview") # None, Analytics!SameRows(q)
  PROVE  /\ Analytics!Data(q) # None /\ Analytics!Data(q).of = Analytics!Data("overview").of
         /\ Analytics!Rows(q) = Analytics!Rows("overview")
         /\ Analytics!Rows("overview") \in Seq(Analytics!Row)
<1>1. Analytics!Key(q, ui) \in Analytics!Keys /\ Analytics!Key(q, ui)[2] = ui
      /\ Analytics!Key("overview", ui) \in Analytics!Keys
      /\ Analytics!Key("overview", ui)[2] = ui
  BY DEF AnalyticsInv, Analytics!TypeOK, Analytics!Key, Analytics!Keys, Analytics!Queries
<1>2. Analytics!Data(q) # None /\ Analytics!Data(q).rows = Analytics!Data("overview").rows
  BY DEF Analytics!SameRows
<1>3. Analytics!Data(q).of = ui /\ Analytics!Data("overview").of = ui
      /\ Analytics!Data("overview").rows <= Len(db)
      /\ Analytics!Data("overview") \in Analytics!Answer
  BY <1>1, <1>2 DEF AnalyticsInv, Analytics!TypeOK, Analytics!Data
<1>4. db \in Seq(Analytics!Row) /\ Analytics!Data("overview").rows \in Nat
  BY <1>3 DEF AnalyticsInv, Analytics!TypeOK, Analytics!Answer
<1>5. Analytics!Rows("overview") \in Seq(Analytics!Row)
  <2>1. PICK n : n = Analytics!Data("overview").rows
    OBVIOUS
  <2>2. SubSeq(db, 1, n) \in Seq(Analytics!Row)
    BY <1>3, <1>4, <2>1
  <2> QED
    BY <2>1, <2>2 DEF Analytics!Rows
<1> QED
  BY <1>2, <1>3, <1>5 DEF Analytics!Rows

\* The panels of the same rows agree (analytics.go, analytics/page.tsx).
LEMMA PanelsTold == ASSUME AnalyticsSound, AnalyticsInv PROVE Analytics!PanelsAgree
<1> SUFFICES ASSUME Analytics!StatCards # None
             PROVE  /\ Analytics!SameRows("traffic") /\ Analytics!TrafficChart(FALSE) # None =>
                         /\ Analytics!Total(Analytics!TrafficChart(FALSE)) = Analytics!StatCards
                         /\ Analytics!Total(Analytics!TrafficChart(TRUE)) <= Analytics!Highlights
                    /\ Analytics!SameRows("device-types") /\ Analytics!DeviceTypePie # None =>
                         Analytics!Total(Analytics!DeviceTypePie) = Analytics!StatCards
                    /\ Analytics!SameRows("top-videos")
                         => Analytics!Total(Analytics!TopVideosTable) = Analytics!StatCards
  BY DEF Analytics!PanelsAgree
<1>1. PICK R, p : R = Analytics!Rows("overview") /\ p = Analytics!Data("overview").of
  OBVIOUS
<1>2. PICK V : V = Analytics!Views(R, p)
  OBVIOUS
<1>3. Analytics!Data("overview") # None
  BY DEF Analytics!StatCards
<1>4. Analytics!StatCards = Cardinality(V)
      /\ Analytics!Highlights = Cardinality(Analytics!Within(R, p))
  BY <1>1, <1>2, <1>3, PageCounts
    DEF Analytics!StatCards, Analytics!Highlights, Analytics!overview, Analytics!Overview
<1>5. ASSUME NEW q \in Analytics!Panels, Analytics!SameRows(q)
      PROVE  /\ Analytics!Data(q) # None /\ Analytics!Rows(q) = R /\ Analytics!Data(q).of = p
             /\ IsFiniteSet(V) /\ Cardinality(V) \in Nat
                  /\ Cardinality(V) <= Cardinality(Analytics!Within(R, p))
  BY <1>1, <1>2, <1>3, <1>5, SameShown, ViewsCounted
<1>6. ASSUME Analytics!SameRows("traffic"), Analytics!TrafficChart(FALSE) # None
      PROVE  Analytics!Total(Analytics!TrafficChart(FALSE)) = Analytics!StatCards
             /\ Analytics!Total(Analytics!TrafficChart(TRUE)) <= Analytics!Highlights
  <2>1. "traffic" \in Analytics!Panels
    BY DEF Analytics!Panels
  <2>2. PICK k : k = [i \in V |-> R[i].days]
    OBVIOUS
  <2>3. \A d : {i \in V : R[i].days = d} = {i \in V : k[i] = d}
    BY <2>2
  <2>4. {R[i].days : i \in V} = {k[i] : i \in V}
    BY <2>2
  <2>5. PICK s : s = Analytics!TrafficSeries(R, p)
    OBVIOUS
  <2>6. /\ DOMAIN s = {k[i] : i \in V}
        /\ \A d \in DOMAIN s : /\ s[d].views = Cardinality({i \in V : k[i] = d})
                               /\ s[d].bandwidth = Cardinality({i \in V : k[i] = d})
    BY <1>2, <2>3, <2>4, <2>5, PageCounts DEF Analytics!TrafficSeries
  <2>7. ~Analytics!Loading("traffic") /\ Analytics!Rows("traffic") = R
        /\ Analytics!Data("traffic").of = p /\ Analytics!Data("traffic") # None
    BY <1>5, <1>6, <2>1 DEF Analytics!TrafficChart
  <2>8. /\ Analytics!TrafficChart(FALSE) = [d \in DOMAIN s |-> s[d].views]
        /\ Analytics!TrafficChart(TRUE) = [d \in DOMAIN s |-> s[d].bandwidth]
    BY <2>5, <2>7 DEF Analytics!TrafficChart, Analytics!chartData
  <2>9. PICK f, g : f = Analytics!TrafficChart(FALSE) /\ g = Analytics!TrafficChart(TRUE)
    OBVIOUS
  <2>10. /\ DOMAIN f = {k[i] : i \in V}
         /\ \A d \in DOMAIN f : f[d] = Cardinality({i \in V : k[i] = d})
         /\ DOMAIN g = {k[i] : i \in V}
         /\ \A d \in DOMAIN g : g[d] = Cardinality({i \in V : k[i] = d})
    BY <2>6, <2>8, <2>9
  <2>11. Analytics!Total(f) = Cardinality(V) /\ Analytics!Total(g) = Cardinality(V)
    BY <1>5, <1>6, <2>1, <2>10, CountedByKind
  <2> QED
    BY <1>4, <1>5, <1>6, <2>1, <2>9, <2>11
<1>7. ASSUME Analytics!SameRows("device-types"), Analytics!DeviceTypePie # None
      PROVE Analytics!Total(Analytics!DeviceTypePie) = Analytics!StatCards
  <2>1. "device-types" \in Analytics!Panels
    BY DEF Analytics!Panels
  <2>2. Analytics!DeviceTypePie = Analytics!DeviceTypes(R, p)
    BY <1>5, <1>7, <2>1 DEF Analytics!DeviceTypePie, Analytics!deviceChartData
  <2>3. PICK f : f = [Unknown |-> Cardinality(V)]
    OBVIOUS
  <2>4. DOMAIN f = {"Unknown"} /\ f["Unknown"] = Cardinality(V) /\ IsFiniteSet(V)
        /\ Cardinality(V) \in Nat
    BY <1>5, <1>7, <2>1, <2>3
  <2>5. PICK W : W = [S \in SUBSET {"Unknown"} |-> IF S = {} THEN 0 ELSE Cardinality(V)]
    OBVIOUS
  <2>6. IsFiniteSet(DOMAIN f)
    <3>1. IsFiniteSet({"Unknown"})
      BY FS_Singleton
    <3> QED
      BY <2>4, <3>1
  <2>7. W[{}] = 0 /\ W[DOMAIN f] = Cardinality(V)
    BY <2>4, <2>5
  <2>8. ASSUME NEW S \in SUBSET DOMAIN f, NEW x \in S  PROVE W[S] = f[x] + W[S \ {x}]
    <3>1. S = {"Unknown"} /\ x = "Unknown" /\ S \ {x} = {}
      BY <2>4
    <3>2. W[S] = Cardinality(V) /\ W[S \ {x}] = 0 /\ f[x] = Cardinality(V)
      BY <2>4, <2>5, <3>1
    <3> QED
      BY <2>4, <3>2
  <2>9. Analytics!Total(f) = Cardinality(V)
    BY <2>6, <2>7, <2>8, SumIs
  <2> QED
    BY <1>2, <1>4, <2>2, <2>3, <2>9, PageCounts DEF Analytics!DeviceTypes
<1>8. ASSUME Analytics!SameRows("top-videos")
      PROVE Analytics!Total(Analytics!TopVideosTable) = Analytics!StatCards
  <2>1. "top-videos" \in Analytics!Panels
    BY DEF Analytics!Panels
  <2>2. Analytics!TopVideosTable = Analytics!TopVideos(R, p)
    BY <1>5, <1>8, <2>1 DEF Analytics!TopVideosTable
  <2>3. PICK k : k = [i \in V |-> R[i].video]
    OBVIOUS
  <2>4. \A v : {i \in V : R[i].video = v} = {i \in V : k[i] = v}
    BY <2>3
  <2>5. {R[i].video : i \in V} = {k[i] : i \in V}
    BY <2>3
  <2>6. PICK f : f = Analytics!TopVideos(R, p)
    OBVIOUS
  <2>7. DOMAIN f = {k[i] : i \in V} /\ \A d \in DOMAIN f : f[d] = Cardinality({i \in V : k[i] = d})
    BY <1>2, <2>4, <2>5, <2>6, PageCounts DEF Analytics!TopVideos
  <2>8. Analytics!Total(f) = Cardinality(V)
    BY <1>5, <1>8, <2>1, <2>7, CountedByKind
  <2> QED
    BY <1>4, <2>2, <2>6, <2>8
<1> QED
  BY <1>6, <1>7, <1>8

----------------------------------------------------------------------------
(* The theme *)

\* At the start there is no tab.
LEMMA InitTheme == ASSUME Theme!Init PROVE Theme!TypeOK /\ Theme!ThemeShown
BY DEF Theme!Init, Theme!TypeOK, Theme!ThemeShown, Theme!Settings

\* What an effect sets is a color, or what was there.
LEMMA ThemeEffects ==
  ASSUME NEW screen \in Theme!Colors \cup {None}
  PROVE  /\ \A color : Theme!applyThemeColor(color, screen) \in Theme!Colors \cup {None}
         /\ \A color \in Theme!Colors : Theme!applyThemeColor(color, screen) = color
         /\ \A before, after : Theme!ThemeColorApplier(before, after, screen) \in Theme!Colors \cup {None}
         /\ \A before : \A after \in Theme!Colors :
              Theme!ThemeColorApplier(before, after, screen) = IF after = before THEN screen ELSE after
         /\ \A edit, filled : Theme!Mounted(edit, filled, screen) \in Theme!Colors \cup {None}
         /\ \A edit : \A filled \in Theme!Colors : filled # None
              => Theme!Mounted(edit, filled, screen) = filled
BY DEF Theme!applyThemeColor, Theme!ThemeColorApplier, Theme!Mounted, Theme!clearThemeColor,
     Theme!currentColor, Theme!Fallback, Theme!Colors

\* The settings are read.
LEMMA ThemeReads == ASSUME None \notin Theme!Colors, Theme!TypeOK, Theme!ThemeShown,
  Theme!SettingsRead PROVE (Theme!TypeOK /\ Theme!ThemeShown)'
<1>1. PICK screen, s1, s2, s3 :
        /\ screen = ui.screen /\ s1 = Theme!ThemeColorApplier(seen, db, screen)
        /\ s2 = Theme!ThemeColorApplier(seen, db, Theme!applyThemeColor(Theme!Fallback, screen))
        /\ s3 = IF Theme!currentColor(db) = Theme!Fallback THEN s2 ELSE Theme!applyThemeColor(Theme!currentColor(db), s2)
  OBVIOUS
<1>2. screen \in Theme!Colors \cup {None} /\ db \in Theme!Settings
      /\ seen \in Theme!Settings \cup {"unread"}
  BY <1>1 DEF Theme!TypeOK
<1>3. s1 \in Theme!Colors \cup {None}
      /\ (db \in Theme!Colors => s1 = IF db = seen THEN screen ELSE db)
  BY <1>1, <1>2, ThemeEffects
<1>4. Theme!Fallback \in Theme!Colors
      /\ Theme!applyThemeColor(Theme!Fallback, screen) = Theme!Fallback
  BY <1>2, ThemeEffects DEF Theme!Fallback, Theme!Colors
<1>5. s2 \in Theme!Colors \cup {None}
      /\ (db \in Theme!Colors => s2 = IF db = seen THEN Theme!Fallback ELSE db)
  BY <1>1, <1>4, ThemeEffects
<1>6. s3 \in Theme!Colors \cup {None} /\ (db \in Theme!Colors /\ seen = "unread" => s3 = db)
  <2>1. db \in Theme!Colors => Theme!currentColor(db) = db /\ db # "unread"
    BY DEF Theme!currentColor, Theme!Colors
  <2>2. \A color : Theme!applyThemeColor(color, s2) \in Theme!Colors \cup {None}
                   /\ (color \in Theme!Colors => Theme!applyThemeColor(color, s2) = color)
    BY <1>5, ThemeEffects
  <2> QED
    BY <1>1, <1>5, <2>1, <2>2
<1>7. CASE ~(ui.open /\ seen = "unread")
  <2>1. ui' = [ui EXCEPT !.screen = s1] /\ seen' = db /\ UNCHANGED <<db, net>>
    BY <1>1, <1>7 DEF Theme!SettingsRead, Theme!TypeOK
  <2> QED
    BY <1>1, <1>2, <1>3, <2>1 DEF Theme!TypeOK, Theme!ThemeShown
<1>8. CASE ui.open /\ seen = "unread"
  <2>1. ui' = [ui EXCEPT !.tab = TRUE, !.edit = db, !.screen = s3] /\ seen' = db
        /\ UNCHANGED <<db, net>>
    BY <1>1, <1>8 DEF Theme!SettingsRead, Theme!TypeOK
  <2> QED
    BY <1>2, <1>6, <1>8, <2>1 DEF Theme!TypeOK, Theme!ThemeShown
<1> QED
  BY <1>7, <1>8

\* Every step keeps the color of the form on the screen.
LEMMA NextTheme == ASSUME None \notin Theme!Colors, Theme!TypeOK, Theme!ThemeShown,
  Theme!Next PROVE (Theme!TypeOK /\ Theme!ThemeShown)'
<1>1. ui.screen \in Theme!Colors \cup {None} /\ ui.edit \in Theme!Settings
  BY DEF Theme!TypeOK
<1>2. CASE Theme!Enter
  <2>1. CASE seen = "unread"
    BY <1>2, <2>1 DEF Theme!Enter, Theme!TypeOK, Theme!ThemeShown, Theme!Settings, Theme!Colors
  <2>2. CASE seen # "unread"
    <3>1. PICK s : s = Theme!Mounted(None, seen, ui.screen)
      OBVIOUS
    <3>2. s \in Theme!Colors \cup {None} /\ (seen \in Theme!Colors => s = seen)
          /\ seen \in Theme!Settings
      BY <1>1, <2>2, <3>1, ThemeEffects DEF Theme!TypeOK
    <3>3. ui' = [open |-> TRUE, tab |-> TRUE, edit |-> seen, screen |-> s]
          /\ UNCHANGED <<db, seen, net>>
      BY <1>2, <2>2, <3>1 DEF Theme!Enter
    <3> QED
      BY <3>2, <3>3 DEF Theme!TypeOK, Theme!ThemeShown
  <2> QED
    BY <2>1, <2>2
<1>3. CASE Theme!Leave
  BY <1>3 DEF Theme!Leave, Theme!TypeOK, Theme!ThemeShown, Theme!Settings
<1>4. CASE Theme!Tab
  <2>1. PICK s : s = IF ui.tab THEN ui.screen ELSE Theme!Mounted(ui.edit, ui.edit, ui.screen)
    OBVIOUS
  <2>2. s \in Theme!Colors \cup {None} /\ (~ui.tab /\ ui.edit \in Theme!Colors => s = ui.edit)
    BY <1>1, <2>1, ThemeEffects
  <2>3. ui' = [ui EXCEPT !.tab = ~ui.tab, !.screen = s] /\ UNCHANGED <<db, seen, net>>
    BY <1>4, <2>1 DEF Theme!Tab, Theme!TypeOK
  <2> QED
    BY <2>2, <2>3 DEF Theme!TypeOK, Theme!ThemeShown
<1>5. CASE Theme!Pick
  <2>1. PICK color \in Theme!Settings \ {None} : ui' = [ui EXCEPT !.edit = color, !.screen = Theme!applyThemeColor(color, ui.screen)]
    BY <1>5 DEF Theme!Pick, Theme!TypeOK
  <2>2. PICK s : s = Theme!applyThemeColor(color, ui.screen)
    OBVIOUS
  <2>3. s \in Theme!Colors \cup {None} /\ (color \in Theme!Colors => s = color)
    BY <1>1, <2>2, ThemeEffects
  <2> QED
    BY <1>5, <2>1, <2>2, <2>3 DEF Theme!Pick, Theme!TypeOK, Theme!ThemeShown
<1>6. CASE Theme!Save
  BY <1>1, <1>6 DEF Theme!Save, Theme!TypeOK, Theme!ThemeShown
<1>7. CASE Theme!Stored
  BY <1>7 DEF Theme!Stored, Theme!TypeOK, Theme!ThemeShown
<1>8. CASE Theme!OthersSave
  BY <1>8 DEF Theme!OthersSave, Theme!TypeOK, Theme!ThemeShown
<1> QED
  BY <1>2, <1>3, <1>4, <1>5, <1>6, <1>7, <1>8, ThemeReads DEF Theme!Next

----------------------------------------------------------------------------
(* The language *)

\* Until i18next has found a language it has none, and it looks for one once the
\* provider's effect has run.
LanguageInv ==
  /\ Language!TypeOK /\ Language!LanguageShown
  /\ seen.init # "done" => seen.language = None
  /\ ~ui.effect => seen.init = "no" /\ ui.document = "ltr"

LangSound == None \notin Language!Codes /\ Blank \notin Odd

LEMMA InitLanguage == ASSUME Language!Init PROVE LanguageInv
BY DEF Language!Init, LanguageInv, Language!TypeOK, Language!LanguageShown, Language!NoMenu,
     Language!I18N_LANGUAGES, Language!Themes

\* What is shown for a code, and how it is written.
LEMMA LanguageEntries ==
  ASSUME LangSound
  PROVE  /\ \A code : Language!Entry(code) \in Language!I18N_LANGUAGES
                       /\ Language!direction(code) \in {"ltr", "rtl"}
         /\ \A code \in Language!I18N_LANGUAGES : Language!Entry(code) = code
         /\ \A code : code \notin Language!I18N_LANGUAGES => Language!Entry(code) = Blank
         /\ Language!direction(Blank) = "ltr"
         /\ Language!I18N_LANGUAGES \subseteq Language!Codes
         /\ None \notin Language!I18N_LANGUAGES
BY DEF LangSound, Language!Entry, Language!direction, Language!I18N_LANGUAGES, Language!Codes

\* A language found or chosen is told to the provider and to the menu.
LEMMA LanguageTold ==
  ASSUME LangSound, LanguageInv, NEW lng \in Language!Codes, Language!Emitted(lng), ui.effect,
         seen.init = "loading" \/ (seen.init = "done" /\ lng \in Language!I18N_LANGUAGES)
  PROVE  LanguageInv'
<1>1. PICK ui2 : ui2 = Language!handleLanguageChange(lng, ui)
  OBVIOUS
<1>2. ui2 \in [effect: BOOLEAN, isI18nInitialized: BOOLEAN, document: {"ltr", "rtl"},
               radix: {"ltr", "rtl"}, theme: Language!Themes]
      /\ ui2.effect /\ ui2.document = Language!direction(Language!Entry(lng))
  <2>1. CASE lng \in Language!I18N_LANGUAGES
    <3>1. ui2 = [ui EXCEPT !.document = Language!direction(lng)]
          /\ Language!direction(lng) \in {"ltr", "rtl"} /\ Language!Entry(lng) = lng
      BY <1>1, <2>1, LanguageEntries DEF Language!handleLanguageChange
    <3> QED
      BY <3>1 DEF LanguageInv, Language!TypeOK
  <2>2. CASE lng \notin Language!I18N_LANGUAGES
    <3>1. ui2 = ui /\ Language!Entry(lng) = Blank /\ seen.language = None
          /\ Language!Entry(None) = Blank
      BY <1>1, <2>2, LanguageEntries DEF Language!handleLanguageChange, LanguageInv
    <3> QED
      BY <3>1 DEF LanguageInv, Language!TypeOK, Language!LanguageShown
  <2> QED
    BY <2>1, <2>2
<1>3. seen' = [language |-> lng, init |-> "done"] /\ ui' = ui2 /\ db' = lng
  BY <1>1 DEF Language!Emitted
<1>4. net' = IF net.phase = "mounted" THEN [net EXCEPT !.language = Language!Entry(lng)] ELSE net
  BY DEF Language!Emitted, Language!handleChange
<1>5. Language!Entry(lng) \in Language!I18N_LANGUAGES
  BY LanguageEntries
<1> QED
  BY <1>2, <1>3, <1>4, <1>5 DEF LanguageInv, Language!TypeOK, Language!LanguageShown

LEMMA NextLanguage == ASSUME LangSound, LanguageInv, Language!Next PROVE LanguageInv'
<1>1. CASE Language!I18nProvider
  <2>1. seen.language = None /\ Language!Entry(None) = Blank
        /\ Language!direction(Blank) = "ltr" /\ net.phase # "rendered"
    BY <1>1, LanguageEntries DEF LanguageInv, Language!I18nProvider
  <2> QED
    BY <1>1, <2>1 DEF Language!I18nProvider, LanguageInv, Language!TypeOK, Language!LanguageShown
<1>2. CASE Language!Detected
  <2>1. PICK lng \in IF db # None THEN {db} ELSE Language!Codes : Language!Emitted(lng)
    BY <1>2 DEF Language!Detected
  <2>2. lng \in Language!Codes /\ seen.init = "loading" /\ ui.effect
    BY <1>2, <2>1 DEF Language!Detected, LanguageInv, Language!TypeOK
  <2> QED
    BY <2>1, <2>2, LanguageTold
<1>3. CASE Language!Initialized
  <2>1. Language!direction(Language!Entry(seen.language)) \in {"ltr", "rtl"}
    BY LanguageEntries
  <2> QED
    BY <1>3, <2>1 DEF Language!Initialized, LanguageInv, Language!TypeOK, Language!LanguageShown
<1>4. CASE Language!Reload
  BY <1>4 DEF Language!Reload, Language!NoMenu, LanguageInv, Language!TypeOK,
       Language!LanguageShown, Language!I18N_LANGUAGES
<1>5. CASE Language!useLanguage
  <2>1. Language!Entry(seen.language) \in Language!I18N_LANGUAGES
        /\ Language!NoMenu.phase = "absent" /\ Language!NoMenu.language \in Language!I18N_LANGUAGES
    BY LanguageEntries DEF Language!NoMenu, Language!I18N_LANGUAGES
  <2>2. net' \in [phase: {"absent", "rendered"}, language: Language!I18N_LANGUAGES]
        /\ UNCHANGED <<db, seen, ui>>
    BY <1>5, <2>1 DEF Language!useLanguage, Language!NoMenu
  <2> QED
    BY <2>2 DEF LanguageInv, Language!TypeOK, Language!LanguageShown
<1>6. CASE Language!Effect
  <2>1. Language!Entry(seen.language) \in Language!I18N_LANGUAGES
    BY LanguageEntries
  <2> QED
    BY <1>6, <2>1 DEF Language!Effect, Language!Mounted, LanguageInv, Language!TypeOK,
         Language!LanguageShown
<1>7. CASE Language!UserDropdownMenu
  <2>1. CASE \E code \in Language!I18N_LANGUAGES \ {net.language} : Language!changeLanguage(code)
    <3>1. PICK code \in Language!I18N_LANGUAGES : seen.init = "done" /\ Language!Emitted(code)
      BY <2>1 DEF Language!changeLanguage
    <3>2. code \in Language!Codes /\ ui.effect
      BY <3>1, LanguageEntries DEF LanguageInv
    <3> QED
      BY <3>1, <3>2, LanguageTold
  <2>2. CASE \E checked \in BOOLEAN : Language!handleThemeToggle(checked)
    BY <2>2 DEF Language!handleThemeToggle, LanguageInv, Language!TypeOK, Language!LanguageShown,
         Language!Themes
  <2> QED
    BY <1>7, <2>1, <2>2 DEF Language!UserDropdownMenu
<1> QED
  BY <1>1, <1>2, <1>3, <1>4, <1>5, <1>6, <1>7 DEF Language!Next

----------------------------------------------------------------------------
(* The tables *)

TableSound == MaxRows \in Nat /\ PageSizes \subseteq Nat \ {0} /\ MoreLimit \in Nat \ {0}
  /\ None \notin 0..MaxRows

TableStates ==
  [table: Tables!Tables, page: 1..(MaxRows + 1), perPage: PageSizes, search: Searches,
   sorting: {"none", "asc", "desc"}, isLoading: BOOLEAN, uploadOpen: BOOLEAN, file: BOOLEAN]

Offered(table) == table.page = 1
  \/ \E rows \in told[table.search] : table.page <= Tables!totalPages(rows, table.perPage)

\* The number on display was read for the search on display.
TableInv == Tables!TypeOK /\ Tables!PageWasOffered /\ seen \in told[ui.search] \cup {None}

LEMMA InitTables == ASSUME TableSound, Tables!Init PROVE TableInv
<1>1. \A s \in Searches : told[s] = {}
  BY DEF Tables!Init
<1>2. PICK table \in Tables!Tables, search \in Searches, size \in PageSizes :
       ui = [table |-> table, page |-> 1, perPage |-> size, search |-> search,
             sorting |-> IF table = "library" THEN "desc" ELSE "none", isLoading |-> TRUE,
             uploadOpen |-> FALSE, file |-> FALSE]
  BY DEF Tables!Init
<1> QED
  BY <1>1, <1>2 DEF Tables!Init, TableSound, TableInv, Tables!TypeOK, Tables!PageWasOffered

LEMMA Quotient ==
  ASSUME NEW a \in Nat, NEW b \in Nat \ {0}
  PROVE  a \div b \in Nat /\ b * (a \div b) <= a /\ a < b * (a \div b) + b
OBVIOUS

\* A page there is has a row before it that is there too.
LEMMA PagesOfRows ==
  ASSUME NEW rows \in Nat, NEW size \in Nat \ {0}, NEW n \in Nat
  PROVE  Tables!totalPages(rows, size) \in Nat /\ Tables!totalPages(rows, size) <= rows
         /\ (n + 1 <= Tables!totalPages(rows, size) <=> size * n < rows)
<1>1. PICK q : q = Tables!totalPages(rows, size)
  OBVIOUS
<1>2. q \in Nat /\ size * q <= rows + size - 1 /\ rows + size - 1 < size * q + size
  <2>1. rows + size - 1 \in Nat
    OBVIOUS
  <2> QED
    BY <1>1, <2>1, Quotient DEF Tables!totalPages
<1>3. n + 1 <= q => size * n < rows
  <2>1. SUFFICES ASSUME n + 1 <= q PROVE size * n < rows
    OBVIOUS
  <2>2. PICK d \in Nat : q = n + 1 + d
    <3>1. q - n - 1 \in Nat /\ q = n + 1 + (q - n - 1)
      BY <1>2, <2>1
    <3> QED
      BY <3>1
  <2>3. size * q = size * n + size + size * d /\ size * d >= 0 /\ size * n \in Nat
        /\ size * d \in Nat
    BY <2>2
  <2> QED
    BY <1>2, <2>3
<1>4. size * n < rows => n + 1 <= q
  <2>1. SUFFICES ASSUME size * n < rows, q <= n PROVE FALSE
    BY <1>2
  <2>2. PICK d \in Nat : n = q + d
    <3>1. n - q \in Nat /\ n = q + (n - q)
      BY <1>2, <2>1
    <3> QED
      BY <3>1
  <2>3. size * n = size * q + size * d /\ size * d >= 0 /\ size * q \in Nat /\ size * d \in Nat
    BY <1>2, <2>2
  <2> QED
    BY <1>2, <2>1, <2>3
<1>5. q <= rows
  <2>1. SUFFICES ASSUME rows + 1 <= q PROVE FALSE
    BY <1>2
  <2>2. PICK d \in Nat : q = rows + 1 + d
    <3>1. q - rows - 1 \in Nat /\ q = rows + 1 + (q - rows - 1)
      BY <1>2, <2>1
    <3> QED
      BY <3>1
  <2>3. size * q = size * rows + size + size * d /\ size * d >= 0 /\ size * rows >= rows
        /\ size * rows \in Nat /\ size * d \in Nat
    <3>1. PICK e \in Nat : size = e + 1
      <4>1. size - 1 \in Nat /\ size = (size - 1) + 1
        OBVIOUS
      <4> QED
        BY <4>1
    <3>2. size * rows = e * rows + rows /\ e * rows \in Nat
      BY <3>1
    <3> QED
      BY <2>2, <3>2
  <2> QED
    BY <1>2, <2>3
<1> QED
  BY <1>1, <1>2, <1>3, <1>4, <1>5

\* The page asks for something else.
LEMMA TableAsks ==
  ASSUME TableInv, NEW next \in TableStates, Offered(next), Tables!Asks(next)
  PROVE  TableInv'
<1>1. PICK cached \in told[next.search] \cup {None} : seen' = cached
      /\ ui' = [next EXCEPT !.isLoading = cached = None]
  BY DEF Tables!Asks
<1>2. db' = db /\ net' = net /\ told' = told
  BY DEF Tables!Asks
<1>3. ui' \in TableStates /\ ui'.page = next.page /\ ui'.search = next.search
      /\ ui'.perPage = next.perPage
  BY <1>1 DEF TableStates
<1>4. next.search \in Searches /\ told[next.search] \subseteq 0..MaxRows
  BY DEF TableInv, Tables!TypeOK, TableStates
<1>5. Tables!PageWasOffered'
  BY <1>2, <1>3 DEF Offered, Tables!PageWasOffered, Tables!totalPages
<1> QED
  BY <1>1, <1>2, <1>3, <1>4, <1>5 DEF TableInv, Tables!TypeOK, TableStates

\* The page on display has its rows before it, or is the first.
LEMMA TablePageHere ==
  ASSUME TableSound, TableInv
  PROVE  /\ ui.page - 1 \in 0..MaxRows /\ ui.perPage \in Nat \ {0} /\ ui.search \in Searches
         /\ told[ui.search] \subseteq 0..MaxRows /\ ui \in TableStates
         /\ ui.page = 1 \/ \E rows \in told[ui.search] : ui.perPage * (ui.page - 1) < rows
<1>1. /\ ui.page - 1 \in 0..MaxRows /\ ui.perPage \in Nat \ {0} /\ ui.search \in Searches
      /\ told[ui.search] \subseteq 0..MaxRows /\ ui \in TableStates
  <2>1. ui \in TableStates /\ told \in [Searches -> SUBSET (0..MaxRows)]
    BY DEF TableInv, Tables!TypeOK, TableStates
  <2>2. ui.page \in 1..(MaxRows + 1) /\ ui.perPage \in PageSizes /\ ui.search \in Searches
    BY <2>1 DEF TableStates
  <2>3. ui.page - 1 \in 0..MaxRows
    BY <2>2 DEF TableSound
  <2> QED
    BY <2>1, <2>2, <2>3 DEF TableSound
<1>2. ASSUME NEW rows \in told[ui.search], ui.page <= Tables!totalPages(rows, ui.perPage)
      PROVE  ui.perPage * (ui.page - 1) < rows
  <2>1. PICK n \in Nat : n = ui.page - 1
    BY <1>1 DEF TableSound
  <2>2. rows \in Nat
    BY <1>1, <1>2 DEF TableSound
  <2>3. ui.page = n + 1
    BY <1>1, <2>1 DEF TableStates
  <2>4. ui.perPage * n < rows
    BY <1>1, <1>2, <2>2, <2>3, PagesOfRows
  <2> QED
    BY <2>1, <2>4
<1> QED
  BY <1>1, <1>2 DEF TableInv, Tables!PageWasOffered

\* Another number of rows per page.
LEMMA TableSize ==
  ASSUME TableSound, TableInv, NEW size \in PageSizes, Tables!setPageSize(size)
  PROVE  TableInv'
<1>1. PICK index : index = (ui.perPage * (ui.page - 1)) \div size
  OBVIOUS
<1>2. Tables!Asks([ui EXCEPT !.page = index + 1, !.perPage = size]) /\ size \in Nat \ {0}
  BY <1>1 DEF Tables!setPageSize, Tables!onPaginationChange, TableSound
<1>3. PICK top \in Nat : top = ui.perPage * (ui.page - 1)
  BY TablePageHere
<1>4. index \in Nat /\ size * index <= top
  BY <1>1, <1>2, <1>3, Quotient
<1>5. CASE ui.page = 1
  <2>1. top = 0
    BY <1>3, <1>5, TablePageHere
  <2>2. index = 0
    <3>1. SUFFICES ASSUME index >= 1 PROVE FALSE
      BY <1>4
    <3>2. PICK d \in Nat : index = 1 + d
      <4>1. index - 1 \in Nat /\ index = 1 + (index - 1)
        BY <1>4, <3>1
      <4> QED
        BY <4>1
    <3>3. size * index = size + size * d /\ size * d >= 0 /\ size * d \in Nat
      BY <1>2, <3>2
    <3> QED
      BY <1>2, <1>4, <2>1, <3>3
  <2>3. [ui EXCEPT !.page = index + 1, !.perPage = size] \in TableStates
    <3>1. index + 1 \in 1..(MaxRows + 1)
      BY <2>2 DEF TableSound
    <3> QED
      BY <3>1, TablePageHere DEF TableStates
  <2>4. Offered([ui EXCEPT !.page = index + 1, !.perPage = size])
    BY <2>2, TablePageHere DEF TableStates, Offered
  <2> QED
    BY <1>2, <2>3, <2>4, TableAsks
<1>6. CASE ui.page # 1
  <2>1. PICK rows \in told[ui.search] : top < rows
    BY <1>3, <1>6, TablePageHere
  <2>2. rows \in 0..MaxRows /\ rows \in Nat
    BY TablePageHere DEF TableSound
  <2>3. size * index < rows
    BY <1>2, <1>4, <2>1, <2>2
  <2>4. index + 1 <= Tables!totalPages(rows, size) /\ Tables!totalPages(rows, size) <= rows
        /\ Tables!totalPages(rows, size) \in Nat
    BY <1>2, <1>4, <2>2, <2>3, PagesOfRows
  <2>5. [ui EXCEPT !.page = index + 1, !.perPage = size] \in TableStates
    <3>1. index + 1 \in 1..(MaxRows + 1)
      BY <1>4, <2>2, <2>4 DEF TableSound
    <3> QED
      BY <3>1, TablePageHere DEF TableStates
  <2>6. Offered([ui EXCEPT !.page = index + 1, !.perPage = size])
    <3>1. PICK next : next = [ui EXCEPT !.page = index + 1, !.perPage = size]
      OBVIOUS
    <3>2. next.page = index + 1 /\ next.perPage = size /\ next.search = ui.search
      BY <3>1, TablePageHere DEF TableStates
    <3> QED
      BY <2>4, <3>1, <3>2 DEF Offered
  <2> QED
    BY <1>2, <2>5, <2>6, TableAsks
<1> QED
  BY <1>5, <1>6

\* The greater and the smaller of two numbers.
LEMMA Extremes ==
  ASSUME NEW a \in Int, NEW b \in Int
  PROVE  Tables!Max({a, b}) = (IF a >= b THEN a ELSE b)
         /\ Tables!Min({a, b}) = (IF a <= b THEN a ELSE b)
<1>1. Tables!Max({a, b}) \in {a, b} /\ \A y \in {a, b} : Tables!Max({a, b}) >= y
  <2>1. \E x \in {a, b} : \A y \in {a, b} : x >= y
    OBVIOUS
  <2> QED
    BY <2>1 DEF Tables!Max
<1>2. Tables!Min({a, b}) \in {a, b} /\ \A y \in {a, b} : Tables!Min({a, b}) <= y
  <2>1. \E x \in {a, b} : \A y \in {a, b} : x <= y
    OBVIOUS
  <2> QED
    BY <2>1 DEF Tables!Min
<1> QED
  BY <1>1, <1>2

\* Another page, of those there are.
LEMMA TableIndex ==
  ASSUME TableSound, TableInv, NEW i \in Int, Tables!pageCount > 1, Tables!setPageIndex(i)
  PROVE  TableInv'
<1>1. ui.perPage \in Nat \ {0} /\ told[ui.search] \subseteq 0..MaxRows /\ ui \in TableStates
  BY TablePageHere
<1>2. seen \in told[ui.search] /\ seen \in 0..MaxRows
      /\ Tables!pageCount = Tables!totalPages(seen, ui.perPage)
  BY <1>1 DEF TableInv, Tables!pageCount
<1>3. PICK pages \in Nat : pages = Tables!totalPages(seen, ui.perPage) /\ pages <= seen
  <2>1. seen \in Nat
    BY <1>2 DEF TableSound
  <2> QED
    BY <1>1, <2>1, PagesOfRows
<1>4. PICK index \in 0..(pages - 1) : Tables!Asks([ui EXCEPT !.page = index + 1, !.perPage = ui.perPage])
  <2>1. PICK low : low = Tables!Min({i, pages - 1})
    OBVIOUS
  <2>2. low \in Int /\ low <= pages - 1
    <3>1. pages - 1 \in Int
      OBVIOUS
    <3>2. low = IF i <= pages - 1 THEN i ELSE pages - 1
      BY <2>1, <3>1, Extremes
    <3> QED
      BY <3>1, <3>2
  <2>3. Tables!Max({0, low}) = IF 0 >= low THEN 0 ELSE low
    BY <2>2, Extremes
  <2>4. Tables!Max({0, low}) \in 0..(pages - 1)
    BY <1>2, <1>3, <2>2, <2>3
  <2>5. Tables!onPaginationChange(Tables!Max({0, low}), ui.perPage)
    <3>1. Tables!pageCount # -1 /\ Tables!pageCount = pages
      BY <1>2, <1>3
    <3> QED
      BY <2>1, <3>1 DEF Tables!setPageIndex
  <2> QED
    BY <2>4, <2>5 DEF Tables!onPaginationChange
<1>5. PICK next : next = [ui EXCEPT !.page = index + 1, !.perPage = ui.perPage]
  OBVIOUS
<1>6. next.page = index + 1 /\ next.perPage = ui.perPage /\ next.search = ui.search
  BY <1>1, <1>5 DEF TableStates
<1>7. index + 1 \in 1..(MaxRows + 1) /\ index + 1 <= pages
  BY <1>2, <1>3 DEF TableSound
<1>8. next \in TableStates
  BY <1>1, <1>5, <1>7 DEF TableStates
<1>9. Offered(next)
  BY <1>2, <1>3, <1>6, <1>7 DEF Offered
<1> QED
  BY <1>4, <1>5, <1>8, <1>9, TableAsks

\* The controls below a table.
LEMMA TableControls == ASSUME TableSound, TableInv, Tables!DataGridPagination PROVE TableInv'
<1>1. CASE \E size \in PageSizes : Tables!setPageSize(size)
  BY <1>1, TableSize
<1>2. ASSUME Tables!pageCount > 1, Tables!previousPage \/ Tables!nextPage
             \/ Tables!renderPageButtons \/ Tables!renderEllipsisPrevButton
                  \/ Tables!renderEllipsisNextButton
      PROVE  TableInv'
  <2>1. Tables!pageIndex \in Nat /\ MoreLimit \in Nat \ {0}
    BY TablePageHere DEF Tables!pageIndex, TableSound
  <2>2. Tables!currentGroupStart \in Int
    <3>1. Tables!pageIndex \div MoreLimit \in Nat
      BY <2>1, Quotient
    <3> QED
      BY <2>1, <3>1 DEF Tables!currentGroupStart
  <2>3. Tables!pageCount \in Int
    <3>1. CASE seen = None
      BY <3>1 DEF Tables!pageCount
    <3>2. CASE seen # None
      <4>1. seen \in Nat /\ ui.perPage \in Nat \ {0}
        BY <3>2, TablePageHere DEF TableInv, TableSound
      <4> QED
        BY <3>2, <4>1, PagesOfRows DEF Tables!pageCount
    <3> QED
      BY <3>1, <3>2
  <2>4. Tables!currentGroupEnd \in Int
    <3>1. Tables!currentGroupStart + MoreLimit \in Int
      BY <2>1, <2>2
    <3> QED
      BY <2>3, <3>1, Extremes DEF Tables!currentGroupEnd
  <2>5. \E i \in Int : Tables!setPageIndex(i)
    <3>1. CASE Tables!previousPage
      BY <2>1, <3>1 DEF Tables!previousPage
    <3>2. CASE Tables!nextPage
      BY <2>1, <3>2 DEF Tables!nextPage
    <3>3. CASE Tables!renderPageButtons
      BY <2>2, <2>4, <3>3 DEF Tables!renderPageButtons
    <3>4. CASE Tables!renderEllipsisPrevButton
      BY <2>2, <3>4 DEF Tables!renderEllipsisPrevButton
    <3>5. CASE Tables!renderEllipsisNextButton
      BY <2>4, <3>5 DEF Tables!renderEllipsisNextButton
    <3> QED
      BY <1>2, <3>1, <3>2, <3>3, <3>4, <3>5
  <2> QED
    BY <1>2, <2>5, TableIndex
<1> QED
  BY <1>1, <1>2 DEF Tables!DataGridPagination

\* Another order or search begins at the first page.
LEMMA TableBegins == ASSUME TableSound, TableInv, Tables!headerButton
  \/ \E s \in Searches : Tables!setSearch(s) PROVE TableInv'
<1>1. ui \in TableStates /\ 1 \in 1..(MaxRows + 1)
  BY TablePageHere DEF TableSound
<1>2. ASSUME NEW next \in {"none", "asc", "desc"}, Tables!onSortingChange(next) PROVE TableInv'
  <2>1. PICK table : table = [ui EXCEPT !.sorting = next, !.page = 1]
    OBVIOUS
  <2>2. table \in TableStates /\ Offered(table)
    BY <1>1, <2>1 DEF TableStates, Offered
  <2> QED
    BY <1>2, <2>1, <2>2, TableAsks DEF Tables!onSortingChange
<1>3. ASSUME NEW s \in Searches, Tables!setSearch(s) PROVE TableInv'
  <2>1. PICK table : table = [ui EXCEPT !.search = s, !.page = 1]
    OBVIOUS
  <2>2. table \in TableStates /\ Offered(table)
    BY <1>1, <2>1 DEF TableStates, Offered
  <2> QED
    BY <1>3, <2>1, <2>2, TableAsks DEF Tables!setSearch
<1> QED
  BY <1>2, <1>3 DEF Tables!headerButton

\* The upload's dialog leaves the table alone.
LEMMA TableUploads ==
  ASSUME TableInv, UNCHANGED <<db, seen, told>>, net' \in {"idle", "sent"},
         NEW open \in BOOLEAN, NEW file \in BOOLEAN,
           ui' = [ui EXCEPT !.uploadOpen = open, !.file = file]
  PROVE  TableInv'
BY DEF TableInv, Tables!TypeOK, Tables!PageWasOffered, Tables!totalPages

LEMMA NextTables == ASSUME TableSound, TableInv, Tables!Next PROVE TableInv'
<1>1. CASE Tables!Read
  <2>1. PICK rows \in 0..MaxRows : seen' = rows
        /\ told' = [told EXCEPT ![ui.search] = @ \cup {rows}]
    BY <1>1 DEF Tables!Read
  <2>2. ui' = [ui EXCEPT !.isLoading = FALSE] /\ db' = db /\ net' = net
    BY <1>1 DEF Tables!Read
  <2>3. told' \in [Searches -> SUBSET (0..MaxRows)]
        /\ told'[ui.search] = told[ui.search] \cup {rows}
    BY <2>1, TablePageHere DEF TableInv, Tables!TypeOK
  <2>4. ui' \in TableStates /\ ui'.page = ui.page /\ ui'.perPage = ui.perPage
        /\ ui'.search = ui.search
    BY <2>2, TablePageHere DEF TableStates
  <2>5. Tables!PageWasOffered'
    BY <2>3, <2>4 DEF TableInv, Tables!PageWasOffered, Tables!totalPages
  <2> QED
    BY <2>1, <2>2, <2>3, <2>4, <2>5 DEF TableInv, Tables!TypeOK, TableStates
<1>2. CASE Tables!ReadFails
  BY <1>2 DEF Tables!ReadFails, TableInv, Tables!TypeOK, Tables!PageWasOffered, Tables!totalPages
<1>3. CASE Tables!LibraryTable \/ Tables!UsersTable \/ Tables!SessionsTable
  BY <1>3, TableBegins, TableControls DEF Tables!LibraryTable, Tables!UsersTable,
       Tables!SessionsTable
<1>4. CASE Tables!OnScreen([ui EXCEPT !.uploadOpen = TRUE])
  <2>1. ui' = [ui EXCEPT !.uploadOpen = TRUE, !.file = ui.file] /\ ui.file \in BOOLEAN
        /\ net' \in {"idle", "sent"}
    BY <1>4 DEF Tables!OnScreen, TableInv, Tables!TypeOK
  <2> QED
    BY <1>4, <2>1, TableUploads DEF Tables!OnScreen
<1>5. CASE Tables!UploadDialog
  <2>1. /\ \E open, file \in BOOLEAN : ui' = [ui EXCEPT !.uploadOpen = open, !.file = file]
        /\ net' \in {"idle", "sent"} /\ UNCHANGED <<db, seen, told>>
    <3>1. ui \in TableStates /\ net \in {"idle", "sent"} /\ ui.uploadOpen \in BOOLEAN
          /\ ui.file \in BOOLEAN
          /\ ui = [ui EXCEPT !.uploadOpen = ui.uploadOpen, !.file = ui.file]
      BY DEF TableInv, Tables!TypeOK, TableStates
    <3>2. CASE Tables!OnScreen([ui EXCEPT !.file = TRUE])
      <4>1. ui' = [ui EXCEPT !.uploadOpen = ui.uploadOpen, !.file = TRUE]
        BY <3>1, <3>2 DEF Tables!OnScreen, TableStates
      <4> QED
        BY <3>1, <3>2, <4>1 DEF Tables!OnScreen
    <3>3. CASE Tables!handleUpload
      BY <3>1, <3>3 DEF Tables!handleUpload
    <3>4. CASE Tables!OnScreen([ui EXCEPT !.uploadOpen = FALSE, !.file = FALSE])
      BY <3>1, <3>4 DEF Tables!OnScreen
    <3> QED
      BY <1>5, <3>2, <3>3, <3>4 DEF Tables!UploadDialog
  <2> QED
    BY <2>1, TableUploads
<1>6. CASE Tables!Uploaded
  BY <1>6, TableUploads DEF Tables!Uploaded
<1>7. CASE Tables!UploadFails
  BY <1>7 DEF Tables!UploadFails, TableInv, Tables!TypeOK, Tables!PageWasOffered, Tables!totalPages
<1> QED
  BY <1>1, <1>2, <1>3, <1>4, <1>5, <1>6, <1>7 DEF Tables!Next

----------------------------------------------------------------------------
(* The rows *)

RowsSound == IsFiniteSet(Videos)

\* An open menu is of a row there is.
RowsInv ==
  /\ Rows!TypeOK
  /\ ui.menu = Rows!NoMenu \/ ui.menu.row \in Rows!Rows

RowStates ==
  [table: {"library", "users"}, isLoading: BOOLEAN, selected: SUBSET (1..Rows!Cardinality(Videos)), detailOpen: BOOLEAN,
   menu: [row: 0..Rows!Cardinality(Videos), of: Videos \cup {None}], detail: Videos \cup {None}]

\* A list has a video in each of its rows, and no more rows than there are videos.
LEMMA RowsOfList ==
  ASSUME RowsSound
  PROVE  /\ Rows!Cardinality(Videos) \in Nat /\ <<>> \in Rows!Lists
         /\ Rows!NoMenu \in [row: 0..Rows!Cardinality(Videos), of: Videos \cup {None}]
         /\ \A list \in Rows!Lists : \A row \in DOMAIN list : row \in 1..Rows!Cardinality(Videos) /\ list[row] \in Videos
<1>1. Rows!Cardinality(Videos) \in Nat
  <2>1. Rows!Cardinality(Videos) = Cardinality(Videos)
    BY DEF Rows!Cardinality, Cardinality
  <2> QED
    BY <2>1, FS_CardinalityType DEF RowsSound
<1>2. <<>> \in Rows!Lists
  <2>1. 0 \in 0..Rows!Cardinality(Videos)
    BY <1>1
  <2>2. <<>> \in [1..0 -> Videos]
    OBVIOUS
  <2>3. Rows!IsInjective(<<>>)
    BY DEF Rows!IsInjective
  <2> QED
    BY <2>1, <2>2, <2>3 DEF Rows!Lists
<1>3. ASSUME NEW list \in Rows!Lists, NEW row \in DOMAIN list
      PROVE  row \in 1..Rows!Cardinality(Videos) /\ list[row] \in Videos
  <2>1. PICK n \in 0..Rows!Cardinality(Videos) : list \in [1..n -> Videos]
    BY <1>3 DEF Rows!Lists
  <2>2. DOMAIN list = 1..n
    BY <2>1
  <2>3. row \in 1..n /\ list[row] \in Videos
    BY <1>3, <2>1, <2>2
  <2> QED
    BY <1>1, <2>1, <2>3
<1>4. Rows!NoMenu \in [row: 0..Rows!Cardinality(Videos), of: Videos \cup {None}]
  BY <1>1 DEF Rows!NoMenu
<1> QED
  BY <1>1, <1>2, <1>3, <1>4

LEMMA InitRowTypes == ASSUME RowsSound, Rows!Init PROVE RowsInv
<1>1. <<>> \in Rows!Lists
      /\ Rows!NoMenu \in [row: 0..Rows!Cardinality(Videos), of: Videos \cup {None}]
  BY RowsOfList
<1>2. PICK table \in {"library", "users"} :
       ui = [table |-> table, isLoading |-> TRUE, selected |-> {}, menu |-> Rows!NoMenu, detail |-> None, detailOpen |-> FALSE]
  BY DEF Rows!Init
<1> QED
  BY <1>1, <1>2 DEF Rows!Init, RowsInv, Rows!TypeOK, Rows!Unread

\* A click changes what is on the screen only.
LEMMA RowClicks ==
  ASSUME RowsInv, NEW next \in RowStates, next.menu = Rows!NoMenu \/ next.menu.row \in Rows!Rows,
         ui' = next,
         UNCHANGED <<db, seen>>, net' \subseteq Videos, told' \subseteq Videos
  PROVE  RowsInv'
BY DEF RowsInv, Rows!TypeOK, RowStates, Rows!Rows, Rows!videos, Rows!NoMenu

\* A row on the screen has its video.
LEMMA RowOnScreen ==
  ASSUME NEW row \in Rows!Rows, Rows!Shown
  PROVE  Rows!DataGridTable.rows[row].title = Rows!videos[row]
<1>1. ~Rows!Skeletons /\ ~Rows!DataGridTableEmpty
  BY DEF Rows!Shown, Rows!DataGridTable
<1>2. Rows!DataGridTable.rows = [r \in Rows!Rows |-> IF ui.table = "users" THEN Rows!usersColumns(r) ELSE Rows!columns(r)]
  BY <1>1 DEF Rows!DataGridTable
<1> QED
  BY <1>2 DEF Rows!usersColumns, Rows!columns

LEMMA NextRowTypes == ASSUME RowsSound, RowsInv, Rows!Next PROVE RowsInv'
<1>1. /\ ui \in RowStates /\ db \subseteq Videos /\ net \subseteq Videos /\ told \subseteq Videos
      /\ seen \in [read: BOOLEAN, list: Rows!Lists]
  BY DEF RowsInv, Rows!TypeOK, RowStates
<1>2. /\ Rows!NoMenu \in [row: 0..Rows!Cardinality(Videos), of: Videos \cup {None}]
      /\ <<>> \in Rows!Lists
      /\ \A row \in Rows!Rows : row \in 1..Rows!Cardinality(Videos) /\ Rows!videos[row] \in Videos
      /\ \A list \in Rows!Lists : \A row \in DOMAIN list : row \in 1..Rows!Cardinality(Videos)
  BY <1>1, RowsOfList DEF Rows!Rows, Rows!videos
<1>3. /\ ui.table \in {"library", "users"} /\ ui.selected \subseteq 1..Rows!Cardinality(Videos)
      /\ ui.menu \in [row: 0..Rows!Cardinality(Videos), of: Videos \cup {None}]
           /\ ui.detail \in Videos \cup {None}
  BY <1>1 DEF RowStates
<1>4. CASE Rows!Read
  <2>1. PICK list \in Rows!Lists : /\ seen' = [read |-> TRUE, list |-> list]
                                   /\ ui' = [ui EXCEPT !.isLoading = FALSE, !.menu = IF ui.menu.row \in DOMAIN list THEN ui.menu ELSE Rows!NoMenu]
    BY <1>4 DEF Rows!Read
  <2>2. PICK menu : menu = IF ui.menu.row \in DOMAIN list THEN ui.menu ELSE Rows!NoMenu
    OBVIOUS
  <2>3. menu \in [row: 0..Rows!Cardinality(Videos), of: Videos \cup {None}]
        /\ (menu = Rows!NoMenu \/ menu.row \in DOMAIN list)
    BY <1>2, <1>3, <2>2
  <2>4. ui' \in RowStates /\ ui'.menu = menu
    BY <1>1, <2>1, <2>2, <2>3 DEF RowStates
  <2>5. seen' \in [read: BOOLEAN, list: Rows!Lists] /\ seen'.list = list
    BY <2>1
  <2>6. UNCHANGED <<db, net, told>>
    BY <1>4 DEF Rows!Read
  <2> QED
    BY <1>1, <2>3, <2>4, <2>5, <2>6 DEF RowsInv, Rows!TypeOK, RowStates, Rows!Rows, Rows!videos,
         Rows!NoMenu
<1>5. CASE Rows!ReadFails
  BY <1>5 DEF Rows!ReadFails, RowsInv, Rows!TypeOK, Rows!Rows, Rows!videos, Rows!NoMenu
<1>6. CASE Rows!AskAnew
  BY <1>2, <1>6 DEF Rows!AskAnew, Rows!Unread, RowsInv, Rows!TypeOK, Rows!Rows, Rows!videos,
       Rows!NoMenu
<1>7. CASE Rows!CloseSheet
  <2>1. PICK next : next = [ui EXCEPT !.detailOpen = FALSE]
    OBVIOUS
  <2>2. next \in RowStates /\ next.menu = ui.menu
    BY <1>1, <2>1 DEF RowStates
  <2> QED
    BY <1>1, <1>7, <2>1, <2>2, RowClicks DEF Rows!CloseSheet, Rows!OnScreen, RowsInv
<1>8. CASE Rows!CloseMenu
  <2>1. PICK next : next = [ui EXCEPT !.menu = Rows!NoMenu]
    OBVIOUS
  <2>2. next \in RowStates /\ next.menu = Rows!NoMenu
    BY <1>1, <1>2, <2>1 DEF RowStates
  <2> QED
    BY <1>1, <1>8, <2>1, <2>2, RowClicks DEF Rows!CloseMenu, Rows!OnScreen
<1>9. CASE ui.menu # Rows!NoMenu /\ Rows!RowMenu
  <2>1. PICK video \in Videos : video = Rows!videos[ui.menu.row]
    BY <1>2, <1>9 DEF RowsInv
  <2>2. CASE Rows!OnScreen([Rows!Sheet(ui, video) EXCEPT !.menu = Rows!NoMenu])
    <3>1. PICK next : next = [Rows!Sheet(ui, video) EXCEPT !.menu = Rows!NoMenu]
      OBVIOUS
    <3>2. next \in RowStates /\ next.menu = Rows!NoMenu
      BY <1>1, <1>2, <3>1 DEF Rows!Sheet, RowStates
    <3> QED
      BY <1>1, <2>2, <3>1, <3>2, RowClicks DEF Rows!OnScreen
  <2>3. CASE Rows!handleDelete(video, video)
    <3>1. PICK next : next = [ui EXCEPT !.menu = Rows!NoMenu]
      OBVIOUS
    <3>2. next \in RowStates /\ next.menu = Rows!NoMenu
      BY <1>1, <1>2, <3>1 DEF RowStates
    <3>3. ui' = next /\ UNCHANGED <<db, seen>> /\ net' \subseteq Videos /\ told' \subseteq Videos
      BY <1>1, <2>1, <2>3, <3>1 DEF Rows!handleDelete
    <3> QED
      BY <3>2, <3>3, RowClicks
  <2> QED
    BY <1>9, <2>1, <2>2, <2>3 DEF Rows!RowMenu
<1>10. CASE Rows!DataGridTableRowSelectAll
  <2>1. PICK rows : rows = IF Rows!isAllPageRowsSelected THEN ui.selected \ Rows!Rows ELSE ui.selected \cup Rows!Rows
    OBVIOUS
  <2>2. rows \subseteq 1..Rows!Cardinality(Videos)
    BY <1>2, <1>3, <2>1
  <2>3. PICK next : next = [ui EXCEPT !.selected = rows]
    OBVIOUS
  <2>4. next \in RowStates /\ next.menu = ui.menu
    BY <1>1, <2>2, <2>3 DEF RowStates
  <2>5. ui' = next /\ UNCHANGED <<db, seen, net, told>>
    BY <1>10, <2>1, <2>3 DEF Rows!DataGridTableRowSelectAll, Rows!OnScreen
  <2> QED
    BY <1>1, <2>4, <2>5, RowClicks DEF RowsInv
<1>11. ASSUME Rows!Shown, NEW row \in Rows!Rows, Rows!onRowClick(row)
      \/ Rows!DataGridTableRowSelect(row) \/ Rows!OpenMenu(row)
       PROVE  RowsInv'
  <2>1. PICK video \in Videos : video = Rows!videos[row]
        /\ Rows!DataGridTable.rows[row].title = video
    BY <1>2, <1>11, RowOnScreen
  <2>2. CASE Rows!onRowClick(row)
    <3>1. PICK next : next = Rows!Sheet(ui, video)
      OBVIOUS
    <3>2. next \in RowStates /\ next.menu = ui.menu
      BY <1>1, <3>1 DEF Rows!Sheet, RowStates
    <3> QED
      BY <1>1, <2>1, <2>2, <3>1, <3>2, RowClicks DEF Rows!onRowClick, Rows!OnScreen, RowsInv
  <2>3. CASE Rows!DataGridTableRowSelect(row)
    <3>1. PICK rows : rows = Rows!toggleSelected(row)
      OBVIOUS
    <3>2. rows \subseteq 1..Rows!Cardinality(Videos)
      BY <1>2, <1>3, <1>11, <3>1 DEF Rows!toggleSelected
    <3>3. PICK next : next = [Rows!Sheet(ui, video) EXCEPT !.selected = rows]
      OBVIOUS
    <3>4. next \in RowStates /\ next.menu = ui.menu
      BY <1>1, <3>2, <3>3 DEF Rows!Sheet, RowStates
    <3>5. ui' = next /\ UNCHANGED <<db, seen, net, told>>
      BY <2>1, <2>3, <3>1, <3>3 DEF Rows!DataGridTableRowSelect, Rows!OnScreen
    <3> QED
      BY <1>1, <3>4, <3>5, RowClicks DEF RowsInv
  <2>4. CASE Rows!OpenMenu(row)
    <3>1. PICK menu : menu = [row |-> row, of |-> video]
      OBVIOUS
    <3>2. menu \in [row: 0..Rows!Cardinality(Videos), of: Videos \cup {None}] /\ menu.row = row
      <4>1. row \in 0..Rows!Cardinality(Videos)
        BY <1>2, <1>11
      <4> QED
        BY <3>1, <4>1
    <3>3. PICK next : next = [ui EXCEPT !.menu = menu]
      OBVIOUS
    <3>4. next \in RowStates /\ next.menu = menu
      BY <1>1, <3>2, <3>3 DEF RowStates
    <3>5. ui' = next /\ UNCHANGED <<db, seen, net, told>>
      BY <2>1, <2>4, <3>1, <3>3 DEF Rows!OpenMenu, Rows!OnScreen
    <3> QED
      BY <1>1, <1>11, <3>2, <3>4, <3>5, RowClicks
  <2> QED
    BY <1>11, <2>2, <2>3, <2>4
<1>12. CASE Rows!TheRows
  BY <1>7, <1>8, <1>9, <1>10, <1>11, <1>12 DEF Rows!TheRows
<1>13. ASSUME NEW v \in net, Rows!Deleted(v) \/ Rows!DeleteFails(v) PROVE RowsInv'
  BY <1>13 DEF Rows!Deleted, Rows!DeleteFails, RowsInv, Rows!TypeOK, Rows!Rows, Rows!videos,
       Rows!NoMenu
<1> QED
  BY <1>4, <1>5, <1>6, <1>12, <1>13 DEF Rows!Next

----------------------------------------------------------------------------
(* What the variables of each page may hold *)

\* A link is used as often as is allowed.
PasswordBound == db <= MaxChanges /\ seen \in {None, "token"}

\* At the start it is not used.
LEMMA InitPasswordBound == ASSUME Password!Init PROVE PasswordBound
BY PagesAssumption DEF Password!Init, PasswordBound

\* The server counts up to the bound.
LEMMA NextPasswordBound == ASSUME PasswordInv, PasswordBound, Password!Next PROVE PasswordBound'
<1>1. db \in Nat /\ MaxChanges \in Nat
  BY PagesAssumption DEF PasswordInv
<1>2. ASSUME NEW x, Password!Served(x)  PROVE PasswordBound'
  BY <1>1, <1>2 DEF Password!Served, PasswordBound
<1>3. ASSUME UNCHANGED <<db, seen>>  PROVE PasswordBound'
  BY <1>3 DEF PasswordBound
<1> QED
  BY <1>2, <1>3
    DEF Password!Next, Password!verify, Password!verifyToken, Password!Push,
      Password!GoBackToLogin, Password!Lost,
        Password!onSubmit, Password!Changed

\* The types of the pages with a dialog, of the captions, the mails' links and the player.
LEMMA UsersTypes == ASSUME UsersInv PROVE Users!TypeOK
BY DEF UsersInv, UsersEditor, EditorInv, UsersUI, Users!TypeOK, Users!Says, Call, Users!Idle, Idle

LEMMA PresetsTypes == ASSUME PresetsInv PROVE Presets!TypeOK
BY DEF PresetsInv, PresetsEditor, EditorInv, PresetsUI, PresetsPage, Presets!TypeOK,
     Presets!Says, Call, Presets!Idle, Idle

LEMMA WebhooksTypes == ASSUME WebhooksInv PROVE Webhooks!TypeOK
BY DEF WebhooksInv, WebhooksEditor, EditorInv, WebhooksUI, WebhooksPage, Webhooks!TypeOK,
     Webhooks!Says, Call,
       Webhooks!Idle, Idle

LEMMA CaptionsTypes == ASSUME CaptionsInv PROVE Captions!TypeOK
BY DEF CaptionsInv, Captions!TypeOK, Captions!Idle, Idle, Fetch, Mutation, Marked

LEMMA PasswordTypes == ASSUME PasswordInv, PasswordBound PROVE Password!TypeOK
<1>1. db \in 0..MaxChanges /\ told \in 0..MaxChanges
  BY PagesAssumption DEF PasswordInv, PasswordBound
<1> QED
  BY <1>1 DEF PasswordInv, PasswordBound, PasswordScreen, Requests, Steps, Password!TypeOK,
       Password!Pages

LEMMA PlayTypes == ASSUME PlayInv PROVE Play!TypeOK
<1>1. db \in Play!Settings
  BY DEF PlayInv, PlaySwitches, Play!Settings
<1> QED
  BY <1>1 DEF PlayInv, Play!TypeOK

\* What the types say of the requests and mutations of the captions.
LEMMA CaptionsLists == ASSUME CaptionsInv PROVE ListTypes
BY PagesAssumption DEF CaptionsInv, ListTypes, Captions!Idle, Idle

\* The constants are as the pages need them.
LEMMA PagesSound ==
  /\ None \notin Theme!Colors /\ LangSound /\ TableSound /\ RowsSound /\ Menu!Sound
       /\ AnalyticsSound /\ None \notin Videos
BY PagesAssumption
  DEF Theme!Colors, LangSound, Language!Codes, Language!I18N_LANGUAGES, TableSound, RowsSound,
    Menu!Sound, AnalyticsSound

----------------------------------------------------------------------------
(* All pages *)

\* What is shown and typed, beside what the pages keep.
ShownInvs ==
  /\ page = "account" => ProfileInv
  /\ page = "captions" => ListInv
  /\ page = "theme" => Theme!TypeOK /\ Theme!ThemeShown
  /\ page = "tables" => TableInv
  /\ page = "rows" => RowsInv
  /\ page = "password" => PasswordBound
  /\ page = "analytics" => AnalyticsInv
  /\ page = "menu" => Menu!TypeOK
  /\ page = "language" => LanguageInv

\* They hold on the page that is chosen.
LEMMA InitShowns == ASSUME Init PROVE ShownInvs
BY InitProfile, InitList, InitTheme, InitTables, InitRowTypes, InitPasswordBound, InitLanguage,
     Menu!MenuStarts,
   AnalyticsStarts, PagesSound
  DEF Init, ShownInvs

\* The steps of these pages.
LEMMA ShownSteps ==
  ASSUME Next
  PROVE  /\ page' = page
         /\ page = "account" => Account!Next
         /\ page = "captions" => Captions!Next
         /\ page = "theme" => Theme!Next
         /\ page = "tables" => Tables!Next
         /\ page = "rows" => Rows!Next
         /\ page = "password" => Password!Next
         /\ page = "analytics" => Analytics!Next
         /\ page = "menu" => Menu!Next
         /\ page = "language" => Language!Next
BY DEF Next

\* Nothing happens to them when nothing happens.
LEMMA StutterShown == ASSUME ShownInvs, UNCHANGED vars PROVE ShownInvs'
<1> USE DEF vars
<1>1. page = "account" => ProfileInv'
  BY DEF ShownInvs, ProfileInv, Due, Refreshes, ReadBefore
<1>2. page = "captions" => ListInv'
  BY DEF ShownInvs, ListInv, ListOf, ChangedOf
<1>3. page = "theme" => (Theme!TypeOK /\ Theme!ThemeShown)'
  BY DEF ShownInvs, Theme!TypeOK, Theme!ThemeShown
<1>4. page = "tables" => TableInv'
  BY DEF ShownInvs, TableInv, Tables!TypeOK, Tables!PageWasOffered
<1>5. page = "rows" => RowsInv'
  BY DEF ShownInvs, RowsInv, Rows!TypeOK, Rows!Rows, Rows!videos
<1>6. page = "password" => PasswordBound'
  BY DEF ShownInvs, PasswordBound
<1>7. page = "analytics" => AnalyticsInv'
  BY DEF ShownInvs, AnalyticsInv, Analytics!TypeOK
<1>8. page = "menu" => Menu!TypeOK'
  BY DEF ShownInvs, Menu!TypeOK
<1>9. page = "language" => LanguageInv'
  BY DEF ShownInvs, LanguageInv, Language!TypeOK, Language!LanguageShown
<1> QED
  BY <1>1, <1>2, <1>3, <1>4, <1>5, <1>6, <1>7, <1>8, <1>9 DEF ShownInvs

\* A step of such a page keeps them.
LEMMA NextShowns == ASSUME PagesInv, ShownInvs, [Next]_vars PROVE ShownInvs'
<1>1. CASE Next
  <2>1. page = "account" => ProfileInv'
    BY <1>1, ShownSteps, NextProfile DEF PagesInv, ShownInvs, AccountInv
  <2>2. page = "captions" => ListInv'
    BY <1>1, ShownSteps, CaptionsLists, NextList DEF PagesInv, ShownInvs
  <2>3. page = "theme" => (Theme!TypeOK /\ Theme!ThemeShown)'
    BY <1>1, ShownSteps, PagesSound, NextTheme DEF ShownInvs
  <2>4. page = "tables" => TableInv'
    BY <1>1, ShownSteps, PagesSound, NextTables DEF ShownInvs
  <2>5. page = "rows" => RowsInv'
    BY <1>1, ShownSteps, PagesSound, NextRowTypes DEF ShownInvs
  <2>6. page = "password" => PasswordBound'
    BY <1>1, ShownSteps, NextPasswordBound DEF PagesInv, ShownInvs
  <2>7. page = "analytics" => AnalyticsInv'
    BY <1>1, ShownSteps, PagesSound, AnalyticsStep DEF ShownInvs
  <2>8. page = "menu" => Menu!TypeOK'
    BY <1>1, ShownSteps, PagesSound, Menu!MenuStays DEF ShownInvs
  <2>9. page = "language" => LanguageInv'
    BY <1>1, ShownSteps, PagesSound, NextLanguage DEF ShownInvs
  <2>10. page' = page
    BY <1>1, ShownSteps
  <2> QED
    BY <2>1, <2>2, <2>3, <2>4, <2>5, <2>6, <2>7, <2>8, <2>9, <2>10 DEF ShownInvs
<1>2. CASE UNCHANGED vars
  BY <1>2, StutterShown
<1> QED
  BY <1>1, <1>2

\* What the pages keep and what they show holds throughout.
LEMMA ShownStays == Spec => [](PagesInv /\ ShownInvs)
<1>1. Init => PagesInv /\ ShownInvs
  BY InitPages, InitShowns
<1>2. PagesInv /\ ShownInvs /\ [Next]_vars => PagesInv' /\ ShownInvs'
  BY NextPages, NextShowns
<1> QED
  BY <1>1, <1>2, PTL DEF Spec

\* What a page shows side by side belongs together, whatever answers come late: the profile
\* and the captions are the server's, the panels of the analytics add up, FFmpeg's status is
\* of its path, color, language, heading and page number are those of what is shown and an
\* answer is below its question, for any number of calls, videos, rows, items and questions.
THEOREM ShownIsOne == Spec => []ShownBelongsTogether
<1>1. PagesInv /\ ShownInvs => ShownBelongsTogether
  <2> SUFFICES ASSUME PagesInv, ShownInvs PROVE ShownBelongsTogether
    OBVIOUS
  <2>1. page = "account" => Account!ProfileIsShown
    BY ProfileOfInv DEF PagesInv, ShownInvs
  <2>2. page = "captions" => Captions!ListIsShown
    BY ListOfInv DEF PagesInv, ShownInvs, CaptionsInv
  <2>3. page = "analytics" => Analytics!PanelsAgree
    BY PagesSound, PanelsTold DEF PagesInv, ShownInvs
  <2>4. page = "settings" => Settings!StatusIsOfPath
    BY EditsMeaning DEF PagesInv, ShownInvs
  <2>5. page = "theme" => Theme!ThemeShown
    BY DEF PagesInv, ShownInvs
  <2>6. page = "language" => Language!LanguageShown
    BY DEF PagesInv, ShownInvs, LanguageInv
  <2>7. page = "menu" => Menu!HeadingAndCrumbsAgree
    BY PagesSound, Menu!MenuAgrees DEF PagesInv, ShownInvs
  <2>8. page = "tables" => Tables!PageWasOffered
    BY DEF PagesInv, ShownInvs, TableInv
  <2>9. page = "chat" => Chat!AnswerBelowQuestion
    BY ChatMeaning DEF PagesInv, ShownInvs
  <2> QED
    BY <2>1, <2>2, <2>3, <2>4, <2>5, <2>6, <2>7, <2>8, <2>9 DEF ShownBelongsTogether
<1> QED
  BY <1>1, ShownStays, PTL

\* On each page the variables have the values they may have.
THEOREM PagesTyped == Spec => []TypeOK
<1>1. PagesInv /\ ShownInvs => TypeOK
  <2> SUFFICES ASSUME PagesInv, ShownInvs PROVE TypeOK
    OBVIOUS
  <2>1. /\ page = "users" => Users!TypeOK
        /\ page = "presets" => Presets!TypeOK
        /\ page = "webhooks" => Webhooks!TypeOK
        /\ page = "captions" => Captions!TypeOK
        /\ page = "password" => Password!TypeOK
        /\ page = "play" => Play!TypeOK
    BY UsersTypes, PresetsTypes, WebhooksTypes, CaptionsTypes, PasswordTypes,
         PlayTypes DEF PagesInv, ShownInvs
  <2>2. /\ page = "player" => Player!TypeOK
        /\ page = "options" => Options!TypeOK
        /\ page = "reset" => Reset!TypeOK
        /\ page = "chat" => Chat!TypeOK
        /\ page = "landing" => Landing!TypeOK
        /\ page = "shown" => Shown!TypeOK
    BY PlayerMeaning, OptionsMeaning, ResetMeaning, ChatMeaning, LandingMeaning,
         ShownMeaning DEF PagesInv, ShownInvs
  <2>3. /\ page = "settings" => Settings!TypeOK
        /\ page = "encoding" => Encoding!TypeOK
    BY EditsMeaning, EncodingMeaning DEF PagesInv, ShownInvs
  <2>4. /\ page = "account" => Account!TypeOK
        /\ page = "theme" => Theme!TypeOK
        /\ page = "tables" => Tables!TypeOK
        /\ page = "rows" => Rows!TypeOK
        /\ page = "menu" => Menu!TypeOK
        /\ page = "language" => Language!TypeOK
        /\ page = "analytics" => Analytics!TypeOK
    BY DEF PagesInv, ShownInvs, AccountInv, TableInv, RowsInv, LanguageInv, AnalyticsInv
  <2> QED
    BY <2>1, <2>2, <2>3, <2>4 DEF TypeOK
<1> QED
  BY <1>1, ShownStays, PTL

=============================================================================
