---------------------- MODULE SessionLifecycle_proofs ----------------------
(***************************************************************************)
(* Theorems about SessionLifecycle and, at the end, about SessionApps that *)
(* extends it, for any number of clients, keys, layouts, sessions, media   *)
(* objects and peers.                                                      *)
(*                                                                         *)
(* Next gives a new media object the least free place, SessionApps the     *)
(* least that no leaked app occupies; the invariants do not depend on the  *)
(* choice, and are proved for any place (AnyNext).                         *)
(***************************************************************************)
EXTENDS SessionApps, TLAPS, WellFoundedInduction

AnyNext ==
  Next \/ \E m \in Mids, ok, plugged \in BOOLEAN : PlayStart(m, ok, plugged)

-----------------------------------------------------------------------------
(***************************************************************************)
(* Lookups in the registry.                                                *)
(***************************************************************************)
LessThan == {p \in Nat \X Nat : p[1] < p[2]}

(* The order on ids is well founded, so a set of ids has a least one.      *)
LEMMA LessThanWF == IsWellFoundedOn(LessThan, Nat)
BY ONLY NatLessThanWellFounded DEF OpToRel, LessThan

(* Every non-empty set of numbers has a least element.                     *)
LEMMA HasLeast ==
  ASSUME NEW S, S \subseteq Nat, S # {}
  PROVE  \E s \in S : \A x \in S : s <= x
<1>1. PICK s \in S : \A x \in S : ~ (<<x, s>> \in LessThan)
  BY LessThanWF, WFMin
<1>2. ASSUME NEW x \in S PROVE s <= x
  <2>1. <<x, s>> \in Nat \X Nat
    OBVIOUS
  <2>2. ~(x < s)
    BY <1>1, <2>1, <<x, s>>[1] = x, <<x, s>>[2] = s DEF LessThan
  <2>3. x \in Nat /\ s \in Nat
    OBVIOUS
  <2> QED BY ONLY <2>2, <2>3
<1> QED BY <1>2

(* A lookup returns a session of the set it searched, or nothing if that   *)
(* set is empty.                                                           *)
LEMMA FrontFinds ==
  ASSUME NEW S, S \subseteq Sids
  PROVE  /\ Front(S) \in S \cup {NoSession}
         /\ Front(S) # NoSession <=> S # {}
<1>1. S \subseteq Nat /\ NoSession \notin S
  BY RegistryAssumption DEF Sids, NoSession
<1>2. CASE S = {}
  BY <1>2 DEF Front
<1>3. CASE S # {}
  BY <1>1, <1>3, HasLeast DEF Front
<1> QED BY <1>2, <1>3

(* The lookups by address, of the running session, and of /resume.         *)
LEMMA LookupsFind ==
  ASSUME registry \subseteq Sids, NEW ip
  PROVE  /\ GetByClientIp(ip) \in registry \cup {NoSession}
         /\ GetRunning \in registry \cup {NoSession}
         /\ ResumeTarget(ip) \in registry \cup {NoSession}
<1>1. GetByClientIp(ip) \in registry \cup {NoSession}
  BY FrontFinds, {s \in registry : clientIp[s] = ip} \subseteq Sids DEF GetByClientIp
<1>2. GetRunning \in registry \cup {NoSession}
  BY FrontFinds DEF GetRunning
<1> QED BY <1>1, <1>2 DEF ResumeTarget

-----------------------------------------------------------------------------
(***************************************************************************)
(* Type correctness.                                                       *)
(***************************************************************************)

(* Each operation on the registry keeps its types.                         *)
LEMMA RegistryTypes ==
  ASSUME RegistryTypeOK
  PROVE  /\ \A ip \in Ips, k \in Keys : AddSession(ip, k) => RegistryTypeOK'
         /\ \A s \in Sids : RemoveSession(s) => RegistryTypeOK'
         /\ \A s \in Sids, ip \in Ips : MoveClient(s, ip) => RegistryTypeOK'
         /\ \A s \in Sids, k \in Keys \cup {NoKey} : RotateKey(s, k) => RegistryTypeOK'
         /\ \A s \in Sids, ch \in Channels : SetChannels(s, ch) => RegistryTypeOK'
         /\ RegistryReset => RegistryTypeOK'
         /\ UNCHANGED registryVars => RegistryTypeOK'
<1> USE RegistryAssumption DEF RegistryTypeOK, Sids
<1>1. ASSUME NEW ip \in Ips, NEW k \in Keys, AddSession(ip, k)
      PROVE  RegistryTypeOK'
  BY <1>1 DEF AddSession
<1>2. ASSUME NEW s \in Sids, RemoveSession(s)
      PROVE  RegistryTypeOK'
  BY <1>2 DEF RemoveSession
<1>3. ASSUME NEW s \in Sids, NEW ip \in Ips, MoveClient(s, ip)
      PROVE  RegistryTypeOK'
  BY <1>3 DEF MoveClient
<1>4. ASSUME NEW s \in Sids, NEW k \in Keys \cup {NoKey}, RotateKey(s, k)
      PROVE  RegistryTypeOK'
  BY <1>4 DEF RotateKey
<1>5. ASSUME NEW s \in Sids, NEW ch \in Channels, SetChannels(s, ch)
      PROVE  RegistryTypeOK'
  BY <1>5 DEF SetChannels
<1>6. ASSUME RegistryReset
      PROVE  RegistryTypeOK'
  BY <1>6 DEF RegistryReset
<1>7. ASSUME UNCHANGED registryVars
      PROVE  RegistryTypeOK'
  BY <1>7 DEF registryVars
<1> QED BY <1>1, <1>2, <1>3, <1>4, <1>5, <1>6, <1>7

(* Each operation on the media objects keeps their types.                  *)
LEMMA MediaTypes ==
  ASSUME RegistryTypeOK, MediaTypeOK
  PROVE  /\ \A m \in Mids, s \in Sids, ok, plugged \in BOOLEAN :
              CreateWithVideo(m, s, ok, plugged) => MediaTypeOK'
         /\ \A m \in Mids, s \in Sids, ok \in BOOLEAN :
              /\ OpenAudio(m, s, ok) => MediaTypeOK'
              /\ ReopenAudio(m, s, ok) => MediaTypeOK'
         /\ \A m \in Mids :
              /\ CloseAudio(m) => MediaTypeOK'
              /\ CloseVideo(m) => MediaTypeOK'
              /\ owner[m] \in Sids /\ PushKey(m) => MediaTypeOK'
              /\ BeginDestructor(m) => MediaTypeOK'
              /\ Destroy(m) => MediaTypeOK'
              /\ \A b \in BOOLEAN : SetPads(m, b) => MediaTypeOK'
         /\ MediaReset => MediaTypeOK'
         /\ UNCHANGED mediaVars => MediaTypeOK'
<1> USE RegistryAssumption DEF RegistryTypeOK, MediaTypeOK
<1>1. ASSUME NEW m \in Mids, NEW s \in Sids, NEW ok \in BOOLEAN, NEW plugged \in BOOLEAN,
             CreateWithVideo(m, s, ok, plugged)
      PROVE  MediaTypeOK'
  BY <1>1 DEF CreateWithVideo
<1>2. ASSUME NEW m \in Mids, NEW s \in Sids, NEW ok \in BOOLEAN,
             OpenAudio(m, s, ok) \/ ReopenAudio(m, s, ok)
      PROVE  MediaTypeOK'
  BY <1>2 DEF OpenAudio, ReopenAudio
<1>3. ASSUME NEW m \in Mids, CloseAudio(m) \/ CloseVideo(m)
      PROVE  MediaTypeOK'
  BY <1>3 DEF CloseAudio, CloseVideo
<1>4. ASSUME NEW m \in Mids, owner[m] \in Sids, PushKey(m)
      PROVE  MediaTypeOK'
  BY <1>4 DEF PushKey
<1>5. ASSUME NEW m \in Mids, BeginDestructor(m) \/ Destroy(m)
      PROVE  MediaTypeOK'
  BY <1>5 DEF BeginDestructor, Destroy
<1>6. ASSUME NEW m \in Mids, NEW b \in BOOLEAN, SetPads(m, b)
      PROVE  MediaTypeOK'
  BY <1>6 DEF SetPads
<1>7. ASSUME MediaReset
      PROVE  MediaTypeOK'
  BY <1>7 DEF MediaReset
<1>8. ASSUME UNCHANGED mediaVars
      PROVE  MediaTypeOK'
  BY <1>8 DEF mediaVars
<1> QED BY <1>1, <1>2, <1>3, <1>4, <1>5, <1>6, <1>7, <1>8

(* The whole type invariant, one step per action.                          *)
LEMMA TypeStep ==
  ASSUME TypeOK, Ownership, [AnyNext]_vars
  PROVE  TypeOK'
<1> USE DEF TypeOK, Threads
<1>1. ASSUME NEW ip \in Ips, NEW k \in Keys, Launch(ip, k)
      PROVE  TypeOK'
  BY <1>1, RegistryTypes, MediaTypes DEF Launch, threadVars
<1>2. ASSUME NEW ip \in Ips, NEW k \in Keys, ResumeMove(ip, k)
      PROVE  TypeOK'
  <2>1. ResumeTarget(ip) \in Sids
    BY <1>2, LookupsFind DEF ResumeMove, RegistryTypeOK
  <2>2. RegistryTypeOK' /\ MediaTypeOK'
    BY <1>2, <2>1, RegistryTypes, MediaTypes DEF ResumeMove
  <2> QED BY <1>2, <2>1, <2>2 DEF ResumeMove, Goto, Pcs
<1>3. ASSUME ResumeKey
      PROVE  TypeOK'
  <2>1. arg["https"] \in Sids
    BY <1>3 DEF ResumeKey, Ownership, SessionsAreKnown
  <2>2. RegistryTypeOK' /\ MediaTypeOK'
    BY <1>3, <2>1, RegistryTypes, MediaTypes DEF ResumeKey
  <2> QED BY <1>3, <2>1, <2>2 DEF ResumeKey, Finish, Goto, Pcs
<1>4. ASSUME NEW ip \in Ips, Cancel(ip)
      PROVE  TypeOK'
  <2>1. GetByClientIp(ip) \in Sids
    BY <1>4, LookupsFind DEF Cancel, RegistryTypeOK
  <2>2. RegistryTypeOK' /\ MediaTypeOK'
    BY <1>4, <2>1, RegistryTypes, MediaTypes DEF Cancel
  <2> QED BY <1>4, <2>1, <2>2 DEF Cancel, Goto, Pcs
<1>5. ASSUME NEW t \in Threads, Take(t)
      PROVE  TypeOK'
  BY <1>5, RegistryTypes, MediaTypes DEF Take, Goto, Finish, Pcs, StopPcs, PlayPcs
<1>6. ASSUME NEW t \in Threads, NEW hadPid \in BOOLEAN, StopExchange(t, hadPid)
      PROVE  TypeOK'
  BY <1>6, RegistryTypes, MediaTypes DEF StopExchange, Goto, Finish, Pcs, StopPcs, PlayPcs
<1>7. ASSUME NEW t \in Threads, StopWaited(t)
      PROVE  TypeOK'
  BY <1>7, RegistryTypes, MediaTypes DEF StopWaited, Goto, Finish, Pcs, StopPcs, PlayPcs
<1>8. ASSUME NEW t \in Threads, StopVideo(t)
      PROVE  TypeOK'
  <2>1. ref[t] \in Mids
    BY <1>8 DEF StopVideo, Ownership, RefsMatchPcs, RefPcs, StopPcs
  <2>2. RegistryTypeOK' /\ MediaTypeOK'
    BY <1>8, <2>1, RegistryTypes, MediaTypes DEF StopVideo, Goto, Finish, Pcs, StopPcs, PlayPcs
  <2> QED BY <1>8, <2>1, <2>2 DEF StopVideo, Goto, Finish, Pcs, StopPcs, PlayPcs
<1>9. ASSUME NEW t \in Threads, StopAudio(t)
      PROVE  TypeOK'
  <2>1. ref[t] \in Mids
    BY <1>9 DEF StopAudio, Ownership, RefsMatchPcs, RefPcs, StopPcs
  <2>2. RegistryTypeOK' /\ MediaTypeOK'
    BY <1>9, <2>1, RegistryTypes, MediaTypes DEF StopAudio, Goto, Finish, Pcs, StopPcs, PlayPcs
  <2> QED BY <1>9, <2>1, <2>2 DEF StopAudio, Goto, Finish, Pcs, StopPcs, PlayPcs
<1>10. ASSUME NEW t \in Threads, Drop(t)
      PROVE  TypeOK'
  <2>1. ref[t] \in Mids
    BY <1>10 DEF Drop, Ownership, RefsMatchPcs, RefPcs, StopPcs
  <2>2. RegistryTypeOK' /\ MediaTypeOK'
    BY <1>10, <2>1, RegistryTypes, MediaTypes DEF Drop, Release, Goto, Finish, Pcs, StopPcs, PlayPcs
  <2> QED BY <1>10, <2>1, <2>2 DEF Drop, Release, Goto, Finish, Pcs, StopPcs, PlayPcs
<1>11. ASSUME NEW s \in Sids, NEW ch \in Channels, Announce(s, ch)
      PROVE  TypeOK'
  BY <1>11, RegistryTypes, MediaTypes DEF Announce, threadVars
<1>12. ASSUME NEW s \in Sids, Play(s)
      PROVE  TypeOK'
  BY <1>12, RegistryTypes, MediaTypes DEF Play, Goto, Finish, Pcs, StopPcs, PlayPcs
<1>13. ASSUME PlayLookup
      PROVE  TypeOK'
  BY <1>13, RegistryTypes, MediaTypes DEF PlayLookup, Goto, Finish, Pcs, StopPcs, PlayPcs
<1>14. ASSUME PlayRead
      PROVE  TypeOK'
  BY <1>14, RegistryTypes, MediaTypes DEF PlayRead, Goto, Finish, Pcs, StopPcs, PlayPcs
<1>15. ASSUME PlayCheck
      PROVE  TypeOK'
  BY <1>15, RegistryTypes, MediaTypes DEF PlayCheck, Goto, Finish, Pcs, StopPcs, PlayPcs
<1>16. ASSUME PlayResume
      PROVE  TypeOK'
  <2>1. ref["rtsp"] \in Mids /\ arg["rtsp"] \in Sids
    BY <1>16 DEF PlayResume, Ownership, RefsMatchPcs, RefPcs, SessionsAreKnown, PlayPcs
  <2>2. RegistryTypeOK' /\ MediaTypeOK'
    BY <1>16, <2>1, RegistryTypes, MediaTypes DEF PlayResume, Goto, Finish, Pcs, StopPcs, PlayPcs
  <2> QED BY <1>16, <2>1, <2>2 DEF PlayResume, Goto, Finish, Pcs, StopPcs, PlayPcs
<1>17. ASSUME NEW ok \in BOOLEAN, PlayRebuild(ok)
      PROVE  TypeOK'
  <2>1. ref["rtsp"] \in Mids /\ arg["rtsp"] \in Sids
    BY <1>17 DEF PlayRebuild, Ownership, RefsMatchPcs, RefPcs, SessionsAreKnown, PlayPcs
  <2>2. RegistryTypeOK' /\ MediaTypeOK'
    BY <1>17, <2>1, RegistryTypes, MediaTypes DEF PlayRebuild, Goto, Finish, Pcs, StopPcs, PlayPcs
  <2> QED BY <1>17, <2>1, <2>2 DEF PlayRebuild, Goto, Finish, Pcs, StopPcs, PlayPcs
<1>18. ASSUME PlayRetarget
      PROVE  TypeOK'
  <2>1. ref["rtsp"] \in Mids /\ owner[ref["rtsp"]] \in Sids
    BY <1>18 DEF PlayRetarget, Ownership, RefsMatchPcs, RefPcs, SessionsAreKnown,
               ExistsWhileReferenced, Referenced
  <2>2. RegistryTypeOK' /\ MediaTypeOK'
    BY <1>18, <2>1, RegistryTypes, MediaTypes DEF PlayRetarget, Goto, Finish, Pcs, StopPcs, PlayPcs
  <2> QED BY <1>18, <2>1, <2>2 DEF PlayRetarget, Goto, Finish, Pcs, StopPcs, PlayPcs
<1>19. ASSUME PlayTake
      PROVE  TypeOK'
  BY <1>19, RegistryTypes, MediaTypes DEF PlayTake, Goto, Finish, Pcs, StopPcs, PlayPcs
<1>20. ASSUME NEW m \in Mids, NEW ok \in BOOLEAN, NEW plugged \in BOOLEAN, PlayStart(m, ok, plugged)
      PROVE  TypeOK'
  <2>1. arg["rtsp"] \in Sids
    BY <1>20 DEF PlayStart, Ownership, SessionsAreKnown, PlayPcs
  <2>2. RegistryTypeOK' /\ MediaTypeOK'
    BY <1>20, <2>1, RegistryTypes, MediaTypes DEF PlayStart, Goto, Finish, Pcs, StopPcs, PlayPcs
  <2> QED BY <1>20, <2>1, <2>2 DEF PlayStart, Goto, Finish, Pcs, StopPcs, PlayPcs
<1>21. ASSUME NEW ok \in BOOLEAN, PlayStartAudio(ok)
      PROVE  TypeOK'
  <2>1. ref["rtsp"] \in Mids /\ arg["rtsp"] \in Sids
    BY <1>21 DEF PlayStartAudio, Ownership, RefsMatchPcs, RefPcs, SessionsAreKnown, PlayPcs
  <2>2. RegistryTypeOK' /\ MediaTypeOK'
    BY <1>21, <2>1, RegistryTypes, MediaTypes DEF PlayStartAudio, Goto, Finish, Pcs, StopPcs, PlayPcs
  <2> QED BY <1>21, <2>1, <2>2 DEF PlayStartAudio, Goto, Finish, Pcs, StopPcs, PlayPcs
<1>22. ASSUME PlayPublish
      PROVE  TypeOK'
  BY <1>22, RegistryTypes, MediaTypes DEF PlayPublish, Goto, Finish, Pcs, StopPcs, PlayPcs
<1>23. ASSUME NEW p \in Peers, NEW secret \in Sids \cup {NoSession}, NEW ip \in Ips,
             Connect(p, secret, ip)
      PROVE  TypeOK'
  <2>1. GetRunning \in Sids
    BY <1>23, LookupsFind DEF Connect, Matches, RegistryTypeOK
  <2> QED BY <1>23, <2>1, RegistryTypes, MediaTypes DEF Connect, threadVars
<1>24. ASSUME NEW p \in Peers, Disconnect(p)
      PROVE  TypeOK'
  BY <1>24, RegistryTypes, MediaTypes DEF Disconnect, threadVars
<1>25. ASSUME NEW p \in Peers, Input(p)
      PROVE  TypeOK'
  BY <1>25, RegistryTypes, MediaTypes DEF Input, Goto, Finish, Pcs, StopPcs, PlayPcs
<1>26. ASSUME NEW b \in BOOLEAN, InputApply(b)
      PROVE  TypeOK'
  <2>1. ref["control"] \in Mids
    BY <1>26 DEF InputApply, Ownership, RefsMatchPcs, RefPcs
  <2>2. RegistryTypeOK' /\ MediaTypeOK'
    BY <1>26, <2>1, RegistryTypes, MediaTypes DEF InputApply, Goto, Finish, Pcs, StopPcs, PlayPcs
  <2> QED BY <1>26, <2>1, <2>2 DEF InputApply, Goto, Finish, Pcs, StopPcs, PlayPcs
<1>27. ASSUME NEW p \in Peers, Terminate(p)
      PROVE  TypeOK'
  BY <1>27, RegistryTypes, MediaTypes DEF Terminate, Goto, Finish, Pcs, StopPcs, PlayPcs
<1>28. ASSUME Crash
      PROVE  TypeOK'
  BY <1>28, RegistryTypes, MediaTypes DEF Crash, Pcs
<1>29. CASE UNCHANGED vars
  BY <1>29, RegistryTypes, MediaTypes DEF vars, threadVars
<1> QED BY <1>1, <1>2, <1>3, <1>4, <1>5, <1>6, <1>7, <1>8, <1>9, <1>10, <1>11, <1>12, <1>13, <1>14, <1>15, <1>16, <1>17, <1>18, <1>19, <1>20, <1>21, <1>22, <1>23, <1>24, <1>25, <1>26, <1>27, <1>28, <1>29
  DEF AnyNext, Next, Https, Rtsp, Control, Stop, StopMedia, PlaySteps, PlayMedia

-----------------------------------------------------------------------------
(***************************************************************************)
(* Ownership is inductive.                                                 *)
(***************************************************************************)

LEMMA OwnershipInit == Init => TypeOK /\ Ownership
<1> SUFFICES ASSUME Init PROVE TypeOK /\ Ownership
  OBVIOUS
<1> USE RegistryAssumption, MediaAssumption
    DEF Init, RegistryInit, MediaInit, Threads, Sids, Mids, NoMedia, NoSession
<1>1. TypeOK
  BY DEF TypeOK, RegistryTypeOK, MediaTypeOK, Pcs
<1>2. Ownership
  BY DEF Ownership, RefsMatchPcs, ExistsWhileReferenced, Referenced, HolderIsLive, SessionsAreKnown,
         StoppedIsTakenOut, SingleStopper, Stopping, DyingIsExclusive, PlayOwnsTheHolder,
         BeingStarted, AbsentIsQuiet, Quiet, RefPcs, StopPcs, PlayPcs
<1> QED BY <1>1, <1>2

(* Every action keeps it; the types of both states come from TypeStep.     *)
LEMMA OwnershipStep ==
  ASSUME TypeOK, TypeOK', Ownership, [AnyNext]_vars
  PROVE  Ownership'
<1> USE DEF TypeOK, MediaTypeOK, Threads, NoMedia, Mids, mediaVars, threadVars, Goto, Finish,
            Ownership, RefsMatchPcs, ExistsWhileReferenced, Referenced, HolderIsLive, SessionsAreKnown,
            StoppedIsTakenOut, SingleStopper, Stopping, DyingIsExclusive, PlayOwnsTheHolder,
            BeingStarted, AbsentIsQuiet, Quiet, RefPcs, StopPcs, PlayPcs
<1>1. ASSUME NEW ip \in Ips, NEW k \in Keys, Launch(ip, k)
      PROVE  Ownership'
  BY <1>1 DEF Launch, AddSession
<1>2. ASSUME NEW ip \in Ips, NEW k \in Keys, ResumeMove(ip, k)
      PROVE  Ownership'
  BY <1>2 DEF ResumeMove, MoveClient
<1>3. ASSUME ResumeKey
      PROVE  Ownership'
  BY <1>3 DEF ResumeKey, RotateKey
<1>4. ASSUME NEW ip \in Ips, Cancel(ip)
      PROVE  Ownership'
  BY <1>4 DEF Cancel, RemoveSession
<1>5. ASSUME NEW t \in Threads, Take(t)
      PROVE  Ownership'
  BY <1>5 DEF Take
<1>6. ASSUME NEW t \in Threads, NEW hadPid \in BOOLEAN, StopExchange(t, hadPid)
      PROVE  Ownership'
  BY <1>6 DEF StopExchange
<1>7. ASSUME NEW t \in Threads, StopWaited(t)
      PROVE  Ownership'
  BY <1>7 DEF StopWaited
<1>8. ASSUME NEW t \in Threads, StopVideo(t)
      PROVE  Ownership'
  BY <1>8 DEF StopVideo, CloseVideo
<1>9. ASSUME NEW t \in Threads, StopAudio(t)
      PROVE  Ownership'
  BY <1>9 DEF StopAudio, CloseAudio
<1>10. ASSUME NEW t \in Threads, Drop(t)
      PROVE  Ownership'
  BY <1>10 DEF Drop, SharedBy, Release, BeginDestructor, Destroy
<1>11. ASSUME NEW s \in Sids, NEW ch \in Channels, Announce(s, ch)
      PROVE  Ownership'
  BY <1>11 DEF Announce
<1>12. ASSUME NEW s \in Sids, Play(s)
      PROVE  Ownership'
  BY <1>12 DEF Play
<1>13. ASSUME PlayLookup
      PROVE  Ownership'
  BY <1>13 DEF PlayLookup
<1>14. ASSUME PlayRead
      PROVE  Ownership'
  BY <1>14 DEF PlayRead
<1>15. ASSUME PlayCheck
      PROVE  Ownership'
  BY <1>15 DEF PlayCheck
<1>16. ASSUME PlayResume
      PROVE  Ownership'
  BY <1>16 DEF PlayResume, CloseAudio
<1>17. ASSUME NEW ok \in BOOLEAN, PlayRebuild(ok)
      PROVE  Ownership'
  BY <1>17 DEF PlayRebuild, ReopenAudio
<1>18. ASSUME PlayRetarget
      PROVE  Ownership'
  BY <1>18 DEF PlayRetarget, PushKey
<1>19. ASSUME PlayTake
      PROVE  Ownership'
  BY <1>19 DEF PlayTake
<1>20. ASSUME NEW m \in Mids, NEW ok \in BOOLEAN, NEW plugged \in BOOLEAN,
             PlayStart(m, ok, plugged)
      PROVE  Ownership'
  BY <1>20 DEF PlayStart, IsFree, CreateWithVideo
<1>21. ASSUME NEW ok \in BOOLEAN, PlayStartAudio(ok)
      PROVE  Ownership'
  BY <1>21 DEF PlayStartAudio, OpenAudio
<1>22. ASSUME PlayPublish
      PROVE  Ownership'
  BY <1>22 DEF PlayPublish
<1>23. ASSUME NEW p \in Peers, NEW secret \in Sids \cup {NoSession}, NEW ip \in Ips,
             Connect(p, secret, ip)
      PROVE  Ownership'
  BY <1>23 DEF Connect
<1>24. ASSUME NEW p \in Peers, Disconnect(p)
      PROVE  Ownership'
  BY <1>24 DEF Disconnect
<1>25. ASSUME NEW p \in Peers, Input(p)
      PROVE  Ownership'
  BY <1>25 DEF Input
<1>26. ASSUME NEW b \in BOOLEAN, InputApply(b)
      PROVE  Ownership'
  BY <1>26 DEF InputApply, SetPads
<1>27. ASSUME NEW p \in Peers, Terminate(p)
      PROVE  Ownership'
  BY <1>27 DEF Terminate
<1>28. ASSUME Crash
      PROVE  Ownership'
  BY <1>28 DEF Crash, MediaReset, RegistryReset
<1>29. CASE UNCHANGED vars
  BY <1>29 DEF vars
<1> HIDE DEF Ownership
<1> QED BY ZenonT(40), <1>1, <1>2, <1>3, <1>4, <1>5, <1>6, <1>7, <1>8, <1>9, <1>10, <1>11, <1>12, <1>13, <1>14,
        <1>15, <1>16, <1>17, <1>18, <1>19, <1>20, <1>21, <1>22, <1>23, <1>24, <1>25, <1>26, <1>27, <1>28, <1>29
        DEF AnyNext, Next, Https, Rtsp, Control, Stop, StopMedia, PlaySteps, PlayMedia

(* Custody is inductive relative to Ownership.                             *)
LEMMA CustodyInit == Init => Custody
BY DEF Init, MediaInit, Custody, RunningVideoIsInCustody, StoppersKnowTheSession,
       PlaySawTheHolder, StopsBeforeVideo, Threads, NoMedia

LEMMA CustodyStep ==
  ASSUME TypeOK, TypeOK', Ownership, Ownership', Custody, [AnyNext]_vars
  PROVE  Custody'
<1> USE DEF TypeOK, MediaTypeOK, Threads, NoMedia, Mids, mediaVars, threadVars, Goto, Finish,
            Ownership, RefsMatchPcs, ExistsWhileReferenced, Referenced, HolderIsLive, SessionsAreKnown,
            StoppedIsTakenOut, SingleStopper, Stopping, DyingIsExclusive, PlayOwnsTheHolder,
            BeingStarted, AbsentIsQuiet, Quiet, RefPcs, StopPcs, PlayPcs,
            Custody, RunningVideoIsInCustody, StoppersKnowTheSession, PlaySawTheHolder,
            StopsBeforeVideo, CanResume, IsActive
<1>1. ASSUME NEW ip \in Ips, NEW k \in Keys, Launch(ip, k)
      PROVE  Custody'
  BY <1>1 DEF Launch, AddSession
<1>2. ASSUME NEW ip \in Ips, NEW k \in Keys, ResumeMove(ip, k)
      PROVE  Custody'
  BY <1>2 DEF ResumeMove, MoveClient
<1>3. ASSUME ResumeKey
      PROVE  Custody'
  BY <1>3 DEF ResumeKey, RotateKey
<1>4. ASSUME NEW ip \in Ips, Cancel(ip)
      PROVE  Custody'
  BY <1>4 DEF Cancel, RemoveSession
<1>5. ASSUME NEW t \in Threads, Take(t)
      PROVE  Custody'
  BY <1>5 DEF Take
<1>6. ASSUME NEW t \in Threads, NEW hadPid \in BOOLEAN, StopExchange(t, hadPid)
      PROVE  Custody'
  BY <1>6 DEF StopExchange
<1>7. ASSUME NEW t \in Threads, StopWaited(t)
      PROVE  Custody'
  BY <1>7 DEF StopWaited
<1>8. ASSUME NEW t \in Threads, StopVideo(t)
      PROVE  Custody'
  BY <1>8 DEF StopVideo, CloseVideo
<1>9. ASSUME NEW t \in Threads, StopAudio(t)
      PROVE  Custody'
  BY <1>9 DEF StopAudio, CloseAudio
<1>10. ASSUME NEW t \in Threads, Drop(t)
      PROVE  Custody'
  BY <1>10 DEF Drop, SharedBy, Release, BeginDestructor, Destroy
<1>11. ASSUME NEW s \in Sids, NEW ch \in Channels, Announce(s, ch)
      PROVE  Custody'
  BY <1>11 DEF Announce
<1>12. ASSUME NEW s \in Sids, Play(s)
      PROVE  Custody'
  BY <1>12 DEF Play
<1>13. ASSUME PlayLookup
      PROVE  Custody'
  BY <1>13 DEF PlayLookup
<1>14. ASSUME PlayRead
      PROVE  Custody'
  BY <1>14 DEF PlayRead
<1>15. ASSUME PlayCheck
      PROVE  Custody'
  BY <1>15 DEF PlayCheck
<1>16. ASSUME PlayResume
      PROVE  Custody'
  BY <1>16 DEF PlayResume, CloseAudio
<1>17. ASSUME NEW ok \in BOOLEAN, PlayRebuild(ok)
      PROVE  Custody'
  BY <1>17 DEF PlayRebuild, ReopenAudio
<1>18. ASSUME PlayRetarget
      PROVE  Custody'
  BY <1>18 DEF PlayRetarget, PushKey
<1>19. ASSUME PlayTake
      PROVE  Custody'
  BY <1>19 DEF PlayTake
<1>20. ASSUME NEW m \in Mids, NEW ok \in BOOLEAN, NEW plugged \in BOOLEAN,
             PlayStart(m, ok, plugged)
      PROVE  Custody'
  BY <1>20 DEF PlayStart, IsFree, CreateWithVideo
<1>21. ASSUME NEW ok \in BOOLEAN, PlayStartAudio(ok)
      PROVE  Custody'
  BY <1>21 DEF PlayStartAudio, OpenAudio
<1>22. ASSUME PlayPublish
      PROVE  Custody'
  BY <1>22 DEF PlayPublish
<1>23. ASSUME NEW p \in Peers, NEW secret \in Sids \cup {NoSession}, NEW ip \in Ips,
             Connect(p, secret, ip)
      PROVE  Custody'
  BY <1>23 DEF Connect
<1>24. ASSUME NEW p \in Peers, Disconnect(p)
      PROVE  Custody'
  BY <1>24 DEF Disconnect
<1>25. ASSUME NEW p \in Peers, Input(p)
      PROVE  Custody'
  BY <1>25 DEF Input
<1>26. ASSUME NEW b \in BOOLEAN, InputApply(b)
      PROVE  Custody'
  BY <1>26 DEF InputApply, SetPads
<1>27. ASSUME NEW p \in Peers, Terminate(p)
      PROVE  Custody'
  BY <1>27 DEF Terminate
<1>28. ASSUME Crash
      PROVE  Custody'
  BY <1>28 DEF Crash, MediaReset, RegistryReset
<1>29. CASE UNCHANGED vars
  BY <1>29 DEF vars
<1> HIDE DEF TypeOK, Ownership, Custody
<1> QED BY <1>1, <1>2, <1>3, <1>4, <1>5, <1>6, <1>7, <1>8, <1>9, <1>10, <1>11, <1>12, <1>13, <1>14,
        <1>15, <1>16, <1>17, <1>18, <1>19, <1>20, <1>21, <1>22, <1>23, <1>24, <1>25, <1>26, <1>27, <1>28, <1>29
        DEF AnyNext, Next, Https, Rtsp, Control, Stop, StopMedia, PlaySteps, PlayMedia

-----------------------------------------------------------------------------
(***************************************************************************)
(* The theorems.                                                           *)
(***************************************************************************)
IInv == TypeOK /\ Ownership /\ Custody

LEMMA InductiveStep == IInv /\ [AnyNext]_vars => IInv'
BY TypeStep, OwnershipStep, CustodyStep DEF IInv

(* The inductive invariant holds in every behaviour.                       *)
LEMMA Inductive == Spec => []IInv
<1>1. Init => IInv
  BY OwnershipInit, CustodyInit DEF IInv
<1>2. IInv /\ [Next]_vars => IInv'
  BY InductiveStep DEF AnyNext
<1> QED BY <1>1, <1>2, PTL DEF Spec

(* Every variable keeps its type, through every interleaving and restart.  *)
THEOREM TypeCorrect == Spec => []TypeOK
<1>1. IInv => TypeOK
  BY DEF IInv
<1> QED BY <1>1, Inductive, PTL

(* Who holds which media object, at every point of every handler.          *)
THEOREM OwnershipHolds == Spec => []Ownership
<1>1. IInv => Ownership
  BY DEF IInv
<1> QED BY <1>1, Inductive, PTL

(* stop() needs no lock: no object is ever stopped by two threads at once. *)
THEOREM SingleStopperHolds == Spec => []SingleStopper
<1>1. IInv => SingleStopper
  BY DEF IInv, Ownership
<1> QED BY <1>1, Inductive, PTL

(* Pipelines and pads that are open have somebody left to close them.      *)
THEOREM LiveMediaIsOwnedHolds == Spec => []LiveMediaIsOwned
<1>1. IInv => LiveMediaIsOwned
  BY DEF IInv, Ownership, AbsentIsQuiet, ExistsWhileReferenced, LiveMediaIsOwned
<1> QED BY <1>1, Inductive, PTL

(* The holder changes to another object only in PlayPublish, and is empty  *)
(* then.                                                                   *)
THEOREM PublishesIntoEmpty == Spec => PublishIntoEmpty
<1>1. IInv /\ [Next]_vars => [holder' \notin {holder, NoMedia} => holder = NoMedia]_vars
  <2> SUFFICES ASSUME IInv, Next, holder' \notin {holder, NoMedia}
               PROVE  holder = NoMedia
    OBVIOUS
  <2>1. PlayPublish
    BY DEF Next, Https, Rtsp, Control, Stop, StopMedia, PlaySteps, PlayMedia, Launch, ResumeMove,
           ResumeKey, Cancel, Take, StopExchange, StopWaited, StopVideo, StopAudio, Drop,
           Announce, Play, PlayLookup, PlayRead, PlayCheck, PlayResume, PlayRebuild,
           PlayRetarget, PlayTake, PlayStart, PlayStartAudio, Connect, Disconnect, Input,
           InputApply, Terminate, Crash
  <2> QED BY <2>1 DEF PlayPublish, IInv, Ownership, PlayOwnsTheHolder
<1> QED BY <1>1, Inductive, PTL DEF Spec, PublishIntoEmpty

(* Only a PLAY, or a stop asked for that very session, closes its video.   *)
THEOREM StaleStopsSpareNewer == Spec => StaleStopSparesNewer
<1> DEFINE Spares ==
      \A t \in {"https", "control"}, m \in Mids :
        pc[t] = "closeVideo" /\ ref[t] = m /\ video[m] /\ ~video'[m] => owner[m] = arg[t]
<1>1. IInv => [Spares]_vars
  <2> SUFFICES ASSUME IInv, NEW t \in {"https", "control"}, NEW m \in Mids,
                      pc[t] = "closeVideo", ref[t] = m, video[m]
               PROVE  owner[m] = arg[t]
    OBVIOUS
  <2>1. t \in Threads \ {"rtsp"}
    BY DEF Threads
  <2> QED BY <2>1 DEF IInv, Custody, RunningVideoIsInCustody, StoppersKnowTheSession,
                      StopsBeforeVideo
<1> QED BY <1>1, Inductive, PTL DEF Spec, StaleStopSparesNewer

(* A PLAY never takes out running media of its own session to relaunch it. *)
THEOREM ResumesNeverRelaunch == Spec => ResumeNeverRelaunches
<1> DEFINE NoRelaunch ==
      pc["rtsp"] = "playTake" /\ ref'["rtsp"] # NoMedia => ~CanResume(ref'["rtsp"], arg["rtsp"])
<1>1. IInv /\ [Next]_vars => [NoRelaunch]_vars
  <2> SUFFICES ASSUME IInv, Next, pc["rtsp"] = "playTake", ref'["rtsp"] # NoMedia
               PROVE  ~CanResume(ref'["rtsp"], arg["rtsp"])
    OBVIOUS
  <2>1. ref'["rtsp"] = holder
    <3>1. ref["rtsp"] = NoMedia
      BY DEF IInv, Ownership, RefsMatchPcs, RefPcs, StopPcs, Threads
    <3> QED BY <3>1 DEF Next, Https, Rtsp, Control, Stop, StopMedia, PlaySteps, PlayMedia, Launch,
           ResumeMove, ResumeKey, Cancel, Take, StopExchange, StopWaited, StopVideo, StopAudio,
           Drop, Release, Announce, Play, PlayLookup, PlayRead, PlayCheck, PlayResume, PlayRebuild,
           PlayRetarget, PlayTake, PlayStart, PlayStartAudio, PlayPublish, Connect, Disconnect,
           Input, InputApply, Terminate, Crash, threadVars, IInv, TypeOK, Threads
  <2> QED BY <2>1 DEF IInv, Custody, PlaySawTheHolder
<1> QED BY <1>1, Inductive, PTL DEF Spec, ResumeNeverRelaunches

-----------------------------------------------------------------------------
(***************************************************************************)
(* The threads implement the abstract life of a media object.              *)
(***************************************************************************)

(* The initial states map to the initial state.                            *)
LEMMA LifecycleInitMaps == Init => Lifecycle!LifecycleInit
<1> SUFFICES ASSUME Init PROVE Lifecycle!LifecycleInit
  OBVIOUS
<1>1. \A m \in Mids : StageOf(m) = "absent" /\ Quiet(m)
  BY DEF Init, MediaInit, StageOf, Quiet
<1> QED BY <1>1 DEF Lifecycle!LifecycleInit, Stage

(* Every step maps to a step of the abstract life, or to a stutter.        *)
LEMMA LifecycleStepMaps ==
  ASSUME TypeOK, TypeOK', Ownership, Ownership', [Next]_vars
  PROVE  [Lifecycle!LifecycleNext]_(Lifecycle!lifecycleVars)
<1> DEFINE busy == {m \in Mids : ~Quiet(m)}
           StagesStay == \A x \in Mids : StageOf(x)' = StageOf(x)
<1> USE DEF TypeOK, MediaTypeOK, Threads, NoMedia, Goto, Finish, mediaVars
(* The steps that the abstract life does not see.                          *)
<1>1. ASSUME StagesStay, UNCHANGED <<video, audio, pads>>
      PROVE  UNCHANGED Lifecycle!lifecycleVars
  BY <1>1 DEF Lifecycle!lifecycleVars, Stage, Quiet
<1>2. ASSUME NEW m \in Mids, NEW ok \in BOOLEAN, NEW plugged \in BOOLEAN, PlayStart(m, ok, plugged)
      PROVE  Lifecycle!Build(m)
  <2>1. Stage[m] = "absent"
    BY <1>2 DEF PlayStart, IsFree, Stage, StageOf
  <2>2. Lifecycle!In("building") = {}
    BY <1>2 DEF PlayStart, Lifecycle!In, Stage, StageOf, BeingStarted
  <2>3. \A x \in Mids : StageOf(x)' = IF x = m THEN "building" ELSE StageOf(x)
    BY <1>2 DEF PlayStart, CreateWithVideo, StageOf, BeingStarted, IsFree, Mids, Ownership, PlayOwnsTheHolder
  <2>4. busy' \in {busy, busy \cup {m}}
    BY <1>2 DEF PlayStart, CreateWithVideo, Quiet, Ownership, AbsentIsQuiet, IsFree
  <2> QED BY <2>1, <2>2, <2>3, <2>4 DEF Lifecycle!Build, Stage
<1>3. ASSUME Https
      PROVE  UNCHANGED Lifecycle!lifecycleVars
  BY <1>1, <1>3 DEF Https, Launch, ResumeMove, ResumeKey, Cancel, threadVars, StageOf, BeingStarted
<1>4. ASSUME NEW t \in Threads,
             (\E hadPid \in BOOLEAN : StopExchange(t, hadPid)) \/ StopWaited(t)
      PROVE  UNCHANGED Lifecycle!lifecycleVars
  BY <1>1, <1>4 DEF StopExchange, StopWaited, StageOf, BeingStarted
<1>5. ASSUME NEW s \in Sids, (\E ch \in Channels : Announce(s, ch)) \/ Play(s)
      PROVE  UNCHANGED Lifecycle!lifecycleVars
  BY <1>1, <1>5 DEF Announce, Play, threadVars, StageOf, BeingStarted
<1>6. ASSUME PlayLookup \/ PlayRead \/ PlayCheck \/ PlayRetarget
      PROVE  UNCHANGED Lifecycle!lifecycleVars
  BY <1>1, <1>6 DEF PlayLookup, PlayRead, PlayCheck, PlayRetarget, PushKey, StageOf, BeingStarted
<1>7. ASSUME NEW p \in Peers,
             \/ \E secret \in Sids \cup {NoSession}, ip \in Ips : Connect(p, secret, ip)
             \/ Disconnect(p) \/ Input(p) \/ Terminate(p)
      PROVE  UNCHANGED Lifecycle!lifecycleVars
  BY <1>1, <1>7 DEF Connect, Disconnect, Input, Terminate, threadVars, StageOf, BeingStarted
(* Taking an object out of the holder retires it.                          *)
<1>8. ASSUME (\E t \in Threads : Take(t)) \/ PlayTake, holder # NoMedia, holder' = NoMedia
      PROVE  Lifecycle!Retire(holder)
  <2>1. holder \in Mids /\ Stage[holder] = "current"
    BY <1>8 DEF Stage, StageOf, BeingStarted, Ownership, HolderIsLive, PlayOwnsTheHolder
  <2>2. \A x \in Mids : StageOf(x)' = IF x = holder THEN "retired" ELSE StageOf(x)
    <3>1. phase[holder] = "live" /\ ~BeingStarted(holder)
      BY <1>8, <2>1 DEF BeingStarted, Ownership, HolderIsLive, PlayOwnsTheHolder
    <3>2. \A x \in Mids : BeingStarted(x)' <=> BeingStarted(x)
      <4>1. CASE \E t \in Threads : Take(t)
        BY <1>8, <4>1, <3>1 DEF Take, BeingStarted
      <4>2. CASE PlayTake
        BY <1>8, <4>2, <3>1 DEF PlayTake, BeingStarted
      <4> QED BY <1>8, <4>1, <4>2
    <3>3. phase' = phase
      BY <1>8 DEF Take, PlayTake
    <3> QED BY <1>8, <3>1, <3>2, <3>3 DEF StageOf, Mids
  <2>3. busy' = busy
    BY <1>8 DEF Take, PlayTake, Quiet
  <2> QED BY <2>1, <2>2, <2>3 DEF Lifecycle!Retire, Stage
<1>9. ASSUME (\E t \in Threads : Take(t)) \/ PlayTake, ~(holder # NoMedia /\ holder' = NoMedia)
      PROVE  UNCHANGED Lifecycle!lifecycleVars
  BY <1>1, <1>9 DEF Take, PlayTake, StageOf, BeingStarted
(* Work on an object that exists changes at most what it holds.            *)
<1>10. ASSUME NEW t \in Threads, ref[t] # NoMedia, StagesStay,
              \A x \in Mids \ {ref[t]} : Quiet(x)' = Quiet(x)
       PROVE  Lifecycle!Change(ref[t])
  <2>1. ref[t] \in Mids /\ Stage[ref[t]] # "absent"
    BY <1>10 DEF Stage, StageOf, Ownership, ExistsWhileReferenced, Referenced
  <2>2. busy' \in {busy \cup {ref[t]}, busy \ {ref[t]}}
    BY <1>10, <2>1
  <2> QED BY <1>10, <2>1, <2>2 DEF Lifecycle!Change, Stage
<1>11. ASSUME NEW t \in Threads, StopVideo(t) \/ StopAudio(t)
       PROVE  Lifecycle!Change(ref[t])
  <2>1. ref[t] # NoMedia
    BY <1>11 DEF StopVideo, StopAudio, Ownership, RefsMatchPcs, RefPcs, StopPcs
  <2> QED BY <1>10, <1>11, <2>1 DEF StopVideo, StopAudio, CloseVideo, CloseAudio, StageOf,
                                    BeingStarted, Quiet
<1>12. ASSUME PlayResume \/ \E ok \in BOOLEAN : PlayRebuild(ok) \/ PlayStartAudio(ok)
       PROVE  Lifecycle!Change(ref["rtsp"])
  <2>1. ref["rtsp"] # NoMedia
    BY <1>12 DEF PlayResume, PlayRebuild, PlayStartAudio, Ownership, RefsMatchPcs, RefPcs
  <2>2. StagesStay
    BY <1>12 DEF PlayResume, PlayRebuild, PlayStartAudio, CloseAudio, ReopenAudio, OpenAudio,
                 StageOf, BeingStarted
  <2>3. \A x \in Mids \ {ref["rtsp"]} : Quiet(x)' = Quiet(x)
    BY <1>12 DEF PlayResume, PlayRebuild, PlayStartAudio, CloseAudio, ReopenAudio, OpenAudio, Quiet
  <2> QED BY <1>10, <2>1, <2>2, <2>3
<1>13. ASSUME NEW b \in BOOLEAN, InputApply(b)
       PROVE  Lifecycle!Change(ref["control"])
  <2>1. ref["control"] # NoMedia
    BY <1>13 DEF InputApply, Ownership, RefsMatchPcs, RefPcs
  <2>2. StagesStay
    BY <1>13 DEF InputApply, SetPads, StageOf, BeingStarted
  <2>3. \A x \in Mids \ {ref["control"]} : Quiet(x)' = Quiet(x)
    BY <1>13 DEF InputApply, SetPads, Quiet
  <2> QED BY <1>10, <2>1, <2>2, <2>3
<1>14. ASSUME PlayPublish
       PROVE  Lifecycle!Publish(ref["rtsp"])
  <2>1. ref["rtsp"] \in Mids /\ BeingStarted(ref["rtsp"])
    BY <1>14 DEF PlayPublish, BeingStarted, Ownership, RefsMatchPcs, RefPcs
  <2>2. holder = NoMedia /\ phase[ref["rtsp"]] = "live"
    BY <1>14, <2>1 DEF PlayPublish, Ownership, PlayOwnsTheHolder
  <2>3. Stage[ref["rtsp"]] = "building" /\ Lifecycle!In("current") = {}
    BY <2>1, <2>2 DEF Stage, StageOf, Lifecycle!In, Mids
  <2>4. \A x \in Mids : StageOf(x)' = IF x = ref["rtsp"] THEN "current" ELSE StageOf(x)
    BY <1>14, <2>1, <2>2 DEF PlayPublish, StageOf, BeingStarted, Mids
  <2>5. busy' = busy
    BY <1>14 DEF PlayPublish, Quiet
  <2> QED BY <2>1, <2>3, <2>4, <2>5 DEF Lifecycle!Publish, Stage
(* Dropping the last reference of a dying object frees it.                 *)
<1>15. ASSUME NEW t \in Threads, Drop(t), Destroy(ref[t])
       PROVE  Lifecycle!Free(ref[t])
  <2> DEFINE m == ref[t]
  <2>1. m \in Mids /\ phase[m] # "none" /\ ~BeingStarted(m)
    BY <1>15 DEF Drop, BeingStarted, Ownership, RefsMatchPcs, RefPcs, ExistsWhileReferenced,
                 Referenced, PlayOwnsTheHolder
  <2>2. phase[m] = "dying" /\ holder # m /\ Quiet(m)
    BY <1>15, <2>1 DEF Drop, SharedBy, Destroy, BeginDestructor, Ownership, DyingIsExclusive,
                       HolderIsLive, RefsMatchPcs, RefPcs
  <2>3. Stage[m] = "retired" /\ m \notin busy
    BY <2>1, <2>2 DEF Stage, StageOf
  <2>4. \A x \in Mids : StageOf(x)' = IF x = m THEN "absent" ELSE StageOf(x)
    BY <1>15, <2>1 DEF Drop, Destroy, Release, StageOf, BeingStarted, Ownership, PlayOwnsTheHolder
  <2>5. busy' = busy
    BY <1>15 DEF Destroy, Quiet
  <2> QED BY <2>1, <2>3, <2>4, <2>5 DEF Lifecycle!Free, Stage
<1>16. ASSUME NEW t \in Threads, Drop(t), ~Destroy(ref[t])
       PROVE  UNCHANGED Lifecycle!lifecycleVars
  BY <1>1, <1>16 DEF Drop, Release, BeginDestructor, StageOf, BeingStarted
<1>17. ASSUME Crash
       PROVE  Lifecycle!Restart
  <2>1. \A x \in Mids : StageOf(x)' = "absent" /\ Quiet(x)'
    BY <1>17 DEF Crash, MediaReset, StageOf, Quiet
  <2> QED BY <2>1 DEF Lifecycle!Restart, Stage
<1>18. CASE UNCHANGED vars
  BY <1>1, <1>18 DEF vars, threadVars, StageOf, BeingStarted
<1> DEFINE Maps == [Lifecycle!LifecycleNext]_(Lifecycle!lifecycleVars)
<1>19. ASSUME NEW m \in Mids,
              \/ Lifecycle!Build(m)
              \/ Lifecycle!Publish(m)
              \/ Lifecycle!Retire(m)
              \/ Lifecycle!Change(m)
              \/ Lifecycle!Free(m)
       PROVE  Maps
  BY <1>19 DEF Lifecycle!LifecycleNext
<1>20. holder # NoMedia => holder \in Mids
  OBVIOUS
<1>21. ASSUME PlaySteps PROVE Maps
  <2>1. PlayPublish \/ PlayResume \/ (\E ok \in BOOLEAN : PlayRebuild(ok) \/ PlayStartAudio(ok))
          => ref["rtsp"] \in Mids
    BY DEF PlayPublish, PlayResume, PlayRebuild, PlayStartAudio, Ownership, RefsMatchPcs, RefPcs
  <2> HIDE DEF TypeOK, Maps
  <2> QED BY <1>2, <1>6, <1>8, <1>9, <1>12, <1>14, <1>19, <1>20, <1>21, <2>1 DEF PlaySteps, PlayMedia, Maps
<1>22. ASSUME NEW t \in Threads, Stop(t) PROVE Maps
  <2>1. StopVideo(t) \/ StopAudio(t) \/ Drop(t) => ref[t] \in Mids
    BY DEF StopVideo, StopAudio, Drop, Ownership, RefsMatchPcs, RefPcs, StopPcs
  <2> HIDE DEF TypeOK, Maps
  <2> QED BY <1>4, <1>8, <1>9, <1>11, <1>15, <1>16, <1>19, <1>20, <1>22, <2>1 DEF Stop, StopMedia, Maps
<1>23. ASSUME Control PROVE Maps
  <2>1. ASSUME NEW b \in BOOLEAN, InputApply(b) PROVE ref["control"] \in Mids
    BY <2>1 DEF InputApply, Ownership, RefsMatchPcs, RefPcs
  <2> HIDE DEF TypeOK, Maps
  <2> QED BY <1>7, <1>13, <1>19, <1>23, <2>1 DEF Control, Maps
<1>24. ASSUME Crash PROVE Maps
  BY <1>17, <1>24 DEF Lifecycle!LifecycleNext
<1> HIDE DEF TypeOK
<1> QED BY <1>3, <1>5, <1>18, <1>21, <1>22, <1>23, <1>24 DEF Next, Rtsp

(* The three threads implement the life of a media object that             *)
(* MediaLifecycle states: at most one current object, built by one PLAY,   *)
(* freed only when retired and closed.                                     *)
THEOREM LifecycleImplemented == Spec => ImplementsLifecycle
<1>1. Init => Lifecycle!LifecycleInit
  BY LifecycleInitMaps
<1>2. IInv /\ IInv' /\ [Next]_vars => [Lifecycle!LifecycleNext]_(Lifecycle!lifecycleVars)
  BY LifecycleStepMaps DEF IInv
<1> QED BY <1>1, <1>2, Inductive, PTL DEF Spec, ImplementsLifecycle, Lifecycle!LifecycleSpec

-----------------------------------------------------------------------------
(***************************************************************************)
(* One session per client.                                                 *)
(***************************************************************************)

(* Sessions in the registry were created, for a real address.              *)
Registered ==
  /\ \A s \in registry : s < nextId /\ clientIp[s] \in Ips
  /\ OneSessionPerClient

LEMMA RegisteredStep ==
  ASSUME TypeOK, Registered, [Next]_vars
  PROVE  Registered'
<1> USE DEF TypeOK, RegistryTypeOK, Registered, OneSessionPerClient, Sids
<1>1. ASSUME UNCHANGED <<registry, nextId, clientIp>>
      PROVE  Registered'
  BY <1>1
<1>2. ASSUME NEW ip \in Ips, GetByClientIp(ip) = NoSession
      PROVE  \A s \in registry : clientIp[s] # ip
  <2> DEFINE Own == {s \in registry : clientIp[s] = ip}
  <2>1. Own \subseteq Sids /\ Front(Own) = NoSession
    BY <1>2 DEF GetByClientIp
  <2>2. Own = {}
    BY <2>1, FrontFinds
  <2> QED BY <2>2
<1>3. ASSUME NEW ip \in Ips, NEW k \in Keys, Launch(ip, k)
      PROVE  Registered'
  BY <1>2, <1>3 DEF Launch, AddSession
<1>4. ASSUME NEW ip \in Ips, NEW k \in Keys, ResumeMove(ip, k)
      PROVE  Registered'
  <2>1. CASE GetByClientIp(ip) # NoSession
    <3>1. GetByClientIp(ip) \in {s \in registry : clientIp[s] = ip}
      BY <2>1, FrontFinds, {s \in registry : clientIp[s] = ip} \subseteq Sids DEF GetByClientIp
    <3> QED BY <1>1, <1>4, <2>1, <3>1 DEF ResumeMove, ResumeTarget, MoveClient
  <2>2. CASE GetByClientIp(ip) = NoSession
    BY <1>2, <1>4, <2>2, LookupsFind DEF ResumeMove, MoveClient
  <2> QED BY <2>1, <2>2
<1>5. ASSUME NEW ip \in Ips, Cancel(ip)
      PROVE  Registered'
  BY <1>5 DEF Cancel, RemoveSession
<1>6. ASSUME ResumeKey
      PROVE  Registered'
  BY <1>1, <1>6 DEF ResumeKey, RotateKey
<1>7. ASSUME NEW t \in Threads, Stop(t)
      PROVE  Registered'
  BY <1>1, <1>7 DEF Stop, StopMedia, Take, StopExchange, StopWaited, StopVideo, StopAudio, Drop,
                    registryVars
<1>8. ASSUME Rtsp
      PROVE  Registered'
  BY <1>1, <1>8 DEF Rtsp, PlaySteps, PlayMedia, Announce, SetChannels, Play, PlayLookup, PlayRead,
       PlayCheck, PlayResume, PlayRebuild, PlayRetarget, PlayTake, PlayStart, PlayStartAudio,
       PlayPublish, registryVars
<1>9. ASSUME Control
      PROVE  Registered'
  BY <1>1, <1>9 DEF Control, Connect, Disconnect, Input, InputApply, Terminate, registryVars
<1>10. ASSUME Crash
       PROVE  Registered'
  BY <1>10 DEF Crash, RegistryReset
<1>11. CASE UNCHANGED vars
  BY <1>1, <1>11 DEF vars, registryVars
<1> HIDE DEF Registered, TypeOK
<1> QED BY <1>3, <1>4, <1>5, <1>6, <1>7, <1>8, <1>9, <1>10, <1>11 DEF Next, Https

(* No two registered sessions ever have the same client address.           *)
THEOREM OneSessionPerClientHolds == Spec => []OneSessionPerClient
<1>1. Init => Registered
  BY DEF Init, RegistryInit, Registered, OneSessionPerClient
<1>2. IInv /\ Registered /\ [Next]_vars => Registered'
  BY RegisteredStep DEF IInv
<1>3. Registered => OneSessionPerClient
  BY DEF Registered
<1> QED BY <1>1, <1>2, <1>3, Inductive, PTL DEF Spec

-----------------------------------------------------------------------------
(***************************************************************************)
(* The key of the running audio payloader.                                 *)
(***************************************************************************)

(* Ids are handed out once: nobody works for a session not yet created.    *)
Created ==
  /\ \A s \in registry : s < nextId
  /\ \A m \in Mids : owner[m] < nextId
  /\ arg["rtsp"] < nextId

(* What a PLAY builds or resumes is its own session's media.               *)
PlayWorksOnItsOwn ==
  pc["rtsp"] \in {"resume", "rebuild", "retarget", "startAudio", "publish"}
    => owner[ref["rtsp"]] = arg["rtsp"]

(* retarget leaves the payloader alone for a session without a key; such a *)
(* session never had one, so the payloader has none either.                *)
NoKeyIsNoKey ==
  \A m \in Mids :
    phase[m] # "none" /\ audio[m] /\ aesKey[owner[m]] = NoKey => audioKey[m] = NoKey

Lags(m) == audio[m] /\ audioKey[m] # aesKey[owner[m]]

(* A PLAY that has not come to its retarget, or to its take.               *)
PlayBeforeHealing ==
  \/ pc["rtsp"] \in {"playLookup", "playRead", "playCheck", "playTake",
                     "resume", "rebuild", "retarget"}
  \/ ret["rtsp"] = "playTake"

(* A payloader that lags behind has a rotation, or no session in the       *)
(* registry, or a PLAY that will still see to it.                          *)
LagIsAccounted ==
  \A m \in Mids : (holder = m \/ BeingStarted(m)) /\ Lags(m) =>
    \/ owner[m] \in rotated
    \/ owner[m] \notin registry
    \/ owner[m] = arg["rtsp"] /\ PlayBeforeHealing

KeyInv == Created /\ PlayWorksOnItsOwn /\ NoKeyIsNoKey /\ LagIsAccounted

LEMMA KeyStep ==
  ASSUME TypeOK, TypeOK', Ownership, Ownership', Custody, KeyInv, [Next]_vars
  PROVE  KeyInv'
<1> USE DEF TypeOK, RegistryTypeOK, MediaTypeOK, Threads, NoMedia, NoSession, Mids, Sids, mediaVars,
            registryVars, threadVars, Goto, Finish,
            Ownership, RefsMatchPcs, ExistsWhileReferenced, Referenced, HolderIsLive, SessionsAreKnown,
            PlayOwnsTheHolder, BeingStarted, AbsentIsQuiet, Quiet, RefPcs, StopPcs, PlayPcs,
            Custody, PlaySawTheHolder,
            KeyInv, Created, PlayWorksOnItsOwn, NoKeyIsNoKey, LagIsAccounted, Lags, PlayBeforeHealing
<1>1. ASSUME NEW ip \in Ips, NEW k \in Keys, Launch(ip, k)
      PROVE  KeyInv'
  BY <1>1 DEF Launch, AddSession
<1>2. ASSUME NEW ip \in Ips, NEW k \in Keys, ResumeMove(ip, k)
      PROVE  KeyInv'
  BY <1>2 DEF ResumeMove, MoveClient
<1>3. ASSUME ResumeKey
      PROVE  KeyInv'
  BY <1>3 DEF ResumeKey, RotateKey
<1>4. ASSUME NEW ip \in Ips, Cancel(ip)
      PROVE  KeyInv'
  BY <1>4 DEF Cancel, RemoveSession
<1>5. ASSUME NEW t \in Threads, Take(t)
      PROVE  KeyInv'
  BY <1>5 DEF Take
<1>6. ASSUME NEW t \in Threads, NEW hadPid \in BOOLEAN, StopExchange(t, hadPid)
      PROVE  KeyInv'
  BY <1>6 DEF StopExchange
<1>7. ASSUME NEW t \in Threads, StopWaited(t)
      PROVE  KeyInv'
  BY <1>7 DEF StopWaited
<1>8. ASSUME NEW t \in Threads, StopVideo(t)
      PROVE  KeyInv'
  BY <1>8 DEF StopVideo, CloseVideo
<1>9. ASSUME NEW t \in Threads, StopAudio(t)
      PROVE  KeyInv'
  BY <1>9 DEF StopAudio, CloseAudio
<1>10. ASSUME NEW t \in Threads, Drop(t)
      PROVE  KeyInv'
  BY <1>10, SMTT(30) DEF Drop, SharedBy, Release, BeginDestructor, Destroy
<1>11. ASSUME NEW s \in Sids, NEW ch \in Channels, Announce(s, ch)
      PROVE  KeyInv'
  BY <1>11 DEF Announce, SetChannels
<1>12. ASSUME NEW s \in Sids, Play(s)
      PROVE  KeyInv'
  BY <1>12 DEF Play
<1>13. ASSUME PlayLookup
      PROVE  KeyInv'
  BY <1>13 DEF PlayLookup, GetById
<1>14. ASSUME PlayRead
      PROVE  KeyInv'
  BY <1>14 DEF PlayRead
<1>15. ASSUME PlayCheck
      PROVE  KeyInv'
  BY <1>15 DEF PlayCheck, CanResume
<1>16. ASSUME PlayResume
      PROVE  KeyInv'
  BY <1>16 DEF PlayResume, CloseAudio
<1>17. ASSUME NEW ok \in BOOLEAN, PlayRebuild(ok)
      PROVE  KeyInv'
  BY <1>17 DEF PlayRebuild, ReopenAudio
<1>18. ASSUME PlayRetarget
      PROVE  KeyInv'
  BY <1>18 DEF PlayRetarget, PushKey
<1>19. ASSUME PlayTake
      PROVE  KeyInv'
  BY <1>19 DEF PlayTake
<1>20. ASSUME NEW m \in Mids, NEW ok \in BOOLEAN, NEW plugged \in BOOLEAN,
             PlayStart(m, ok, plugged)
      PROVE  KeyInv'
  BY <1>20 DEF PlayStart, IsFree, CreateWithVideo
<1>21. ASSUME NEW ok \in BOOLEAN, PlayStartAudio(ok)
      PROVE  KeyInv'
  BY <1>21 DEF PlayStartAudio, OpenAudio
<1>22. ASSUME PlayPublish
      PROVE  KeyInv'
  BY <1>22 DEF PlayPublish
<1>23. ASSUME NEW p \in Peers, NEW secret \in Sids \cup {NoSession}, NEW ip \in Ips,
             Connect(p, secret, ip)
      PROVE  KeyInv'
  BY <1>23 DEF Connect
<1>24. ASSUME NEW p \in Peers, Disconnect(p)
      PROVE  KeyInv'
  BY <1>24 DEF Disconnect
<1>25. ASSUME NEW p \in Peers, Input(p)
      PROVE  KeyInv'
  BY <1>25 DEF Input
<1>26. ASSUME NEW b \in BOOLEAN, InputApply(b)
      PROVE  KeyInv'
  BY <1>26 DEF InputApply, SetPads
<1>27. ASSUME NEW p \in Peers, Terminate(p)
      PROVE  KeyInv'
  BY <1>27 DEF Terminate
<1>28. ASSUME Crash
      PROVE  KeyInv'
  BY <1>28 DEF Crash, MediaReset, RegistryReset
<1>29. CASE UNCHANGED vars
  BY <1>29 DEF vars
<1> HIDE DEF TypeOK, Ownership, Custody, KeyInv
<1> QED BY <1>1, <1>2, <1>3, <1>4, <1>5, <1>6, <1>7, <1>8, <1>9, <1>10, <1>11, <1>12, <1>13, <1>14, <1>15, <1>16, <1>17, <1>18, <1>19, <1>20, <1>21, <1>22, <1>23, <1>24, <1>25, <1>26, <1>27, <1>28, <1>29
        DEF Next, Https, Rtsp, Control, Stop, StopMedia, PlaySteps, PlayMedia

(* Completing a PLAY heals the key of its session's audio: between PLAYs   *)
(* only a /resume since then can make the payloader lag behind.            *)
THEOREM AudioKeyFollows == Spec => []AudioKeyFollowsResume
<1>1. Init => KeyInv
  BY DEF Init, RegistryInit, MediaInit, KeyInv, Created, PlayWorksOnItsOwn, NoKeyIsNoKey,
         LagIsAccounted, Lags, BeingStarted, Threads, Mids, NoMedia, NoSession
<1>2. IInv /\ IInv' /\ KeyInv /\ [Next]_vars => KeyInv'
  BY KeyStep DEF IInv
<1>3. IInv /\ KeyInv => AudioKeyFollowsResume
  <2> SUFFICES ASSUME IInv, KeyInv, holder # NoMedia, pc["rtsp"] = "idle",
                      owner[holder] \in registry, Lags(holder)
               PROVE  owner[holder] \in rotated
    BY DEF AudioKeyFollowsResume, Lags
  <2>1. holder \in Mids
    BY DEF IInv, TypeOK
  <2>2. ret["rtsp"] = "idle"
    BY DEF IInv, Ownership, SessionsAreKnown, Threads, StopPcs
  <2>3. ~PlayBeforeHealing
    BY <2>2 DEF PlayBeforeHealing
  <2> QED BY <2>1, <2>3 DEF KeyInv, LagIsAccounted
<1> QED BY <1>1, <1>2, <1>3, Inductive, PTL DEF Spec

-----------------------------------------------------------------------------
(***************************************************************************)
(* The apps.                                                               *)
(***************************************************************************)

(* Until its launcher forks, an object has no app; and an app that nobody  *)
(* launches, knows, has missed or has sent SIGKILL is one that a stop() is *)
(* waiting for.                                                            *)
LaunchInv ==
  /\ \A m \in Mids : watcher[m] \in {"waiting", "launching"} => ~AppAlive(m)
  /\ \A m \in Mids :
       AppAlive(m) /\ ~Excused(m)
         => \E t \in Threads : ref[t] = m /\ pc[t] = "kill"

(* The steps of the handlers, as SessionApps composes them, are steps of   *)
(* SessionLifecycle.                                                       *)
LEMMA AppsStepIsAStep ==
  ASSUME AppTypeOK, RefsMatchPcs, ref \in [Threads -> Mids \cup {NoMedia}], [AppsNext]_allVars
  PROVE  [AnyNext]_vars
<1>1. ASSUME NEW t \in Threads, StopApp(t)
      PROVE  AnyNext \/ UNCHANGED vars
  <2>1. CASE ExchangeApp(t)
    <3>1. appPid[ref[t]] \in BOOLEAN
      BY <2>1 DEF ExchangeApp, StopExchange, AppTypeOK, RefsMatchPcs, RefPcs, StopPcs
    <3> QED BY <2>1, <3>1 DEF ExchangeApp, AnyNext, Next, Stop
  <2>2. CASE WaitedForApp(t)
    BY <2>2 DEF WaitedForApp, AnyNext, Next, Stop
  <2>3. CASE StopMedia(t)
    BY <2>3 DEF AnyNext, Next, Stop
  <2>4. CASE EscalateApp(t)
    BY <2>4 DEF EscalateApp
  <2> QED BY <1>1, <2>1, <2>2, <2>3, <2>4 DEF StopApp
<1>2. ASSUME PlayApp
      PROVE  AnyNext
  BY <1>2 DEF PlayApp, StartWithApp, AnyNext, Next, Rtsp, PlaySteps
<1>3. ASSUME NEW s \in Sids, PlayAgain(s) \/ \E ch \in Channels : Announce(s, ch)
      PROVE  AnyNext
  BY <1>3 DEF PlayAgain, AnyNext, Next, Rtsp
<1>4. ASSUME Https \/ Control \/ Crash
      PROVE  AnyNext
  BY <1>4 DEF AnyNext, Next
<1> QED BY <1>1, <1>2, <1>3, <1>4 DEF AppsNext, allVars

LEMMA AppTypeStep ==
  ASSUME TypeOK, RefsMatchPcs, AppTypeOK, [AppsNext]_allVars
  PROVE  AppTypeOK'
<1> USE DEF AppTypeOK
<1>1. ASSUME NEW t \in Threads, ExchangeApp(t) \/ EscalateApp(t) \/ WaitedForApp(t)
      PROVE  AppTypeOK'
  <2>1. ref[t] \in Mids
    BY <1>1 DEF ExchangeApp, StopExchange, EscalateApp, WaitedForApp, StopWaited,
                TypeOK, RefsMatchPcs, RefPcs, StopPcs
  <2> QED BY <1>1, <2>1 DEF ExchangeApp, ExchangePid, EscalateApp, SendSigkill, WaitedForApp,
                            SeeGroupGone, appVars
<1>2. ASSUME NEW m \in Mids, NEW ok \in BOOLEAN, StartWatch(m, ok)
      PROVE  AppTypeOK'
  BY <1>2 DEF StartWatch
<1>3. ASSUME NEW m \in Mids, WatcherSteps(m) \/ AppSetsid(m) \/ AppExit(m)
      PROVE  AppTypeOK'
  BY <1>3 DEF WatcherSteps, WatcherPop, WatcherGiveUp, WatcherFork, WatcherStore, AppSetsid, AppExit
<1>4. ASSUME AppReset
      PROVE  AppTypeOK'
  BY <1>4 DEF AppReset
<1>5. ASSUME UNCHANGED appVars
      PROVE  AppTypeOK'
  BY <1>5 DEF appVars
<1> HIDE DEF AppTypeOK
<1> QED BY <1>1, <1>2, <1>3, <1>4, <1>5 DEF AppsNext, StopApp, PlayApp, StartWithApp, PlayAgain, allVars

(* Only the end of its own wait, or a restart, moves a thread that waits   *)
(* for an app.                                                             *)
StillWaits == \A t \in Threads : pc[t] = "kill" => pc'[t] = "kill" /\ ref'[t] = ref[t]

LEMMA WaitersStay ==
  ASSUME TypeOK,
         \/ Https \/ Control \/ PlayMedia \/ UNCHANGED vars
         \/ \E s \in Sids : Play(s) \/ \E ch \in Channels : Announce(s, ch)
         \/ \E m \in Mids, ok, plugged \in BOOLEAN : PlayStart(m, ok, plugged)
         \/ \E t \in Threads : StopMedia(t) \/ \E hadPid \in BOOLEAN : StopExchange(t, hadPid)
  PROVE  StillWaits
<1> USE DEF TypeOK, Threads, Goto, Finish, threadVars, StillWaits
<1>1. CASE Https
  BY <1>1 DEF Https, Launch, ResumeMove, ResumeKey, Cancel
<1>2. CASE Control
  BY <1>2 DEF Control, Connect, Disconnect, Input, InputApply, Terminate
<1>3. CASE PlayMedia
  BY <1>3 DEF PlayMedia, PlayLookup, PlayRead, PlayCheck, PlayResume, PlayRebuild, PlayRetarget,
              PlayTake, PlayStartAudio, PlayPublish
<1>4. CASE UNCHANGED vars
  BY <1>4 DEF vars
<1>5. CASE \E s \in Sids : Play(s) \/ \E ch \in Channels : Announce(s, ch)
  BY <1>5 DEF Play, Announce
<1>6. CASE \E m \in Mids, ok, plugged \in BOOLEAN : PlayStart(m, ok, plugged)
  BY <1>6 DEF PlayStart
<1>7. CASE \E t \in Threads : StopMedia(t) \/ \E hadPid \in BOOLEAN : StopExchange(t, hadPid)
  BY <1>7 DEF StopMedia, Take, StopVideo, StopAudio, Drop, Release, StopExchange
<1> QED BY <1>1, <1>2, <1>3, <1>4, <1>5, <1>6, <1>7

(* The invariant of the launches: a wait ends with the group gone or       *)
(* missed, or after SIGKILL.                                               *)
LEMMA LaunchStep ==
  ASSUME TypeOK, RefsMatchPcs, AppTypeOK, LaunchInv, [AppsNext]_allVars
  PROVE  LaunchInv'
<1> USE DEF AppTypeOK, LaunchInv, AppAlive, GroupAlive, Excused
<1>1. ASSUME StillWaits, UNCHANGED appVars
      PROVE  LaunchInv'
  BY <1>1 DEF StillWaits, appVars
<1>2. ASSUME NEW t \in Threads, ExchangeApp(t)
      PROVE  LaunchInv'
  <2>1. ref[t] \in Mids
    BY <1>2 DEF ExchangeApp, StopExchange, TypeOK, RefsMatchPcs, RefPcs, StopPcs
  <2>2. appPid[ref[t]] \in BOOLEAN
    BY <2>1
  <2>3. StillWaits
    BY <1>2, <2>2, WaitersStay DEF ExchangeApp
  <2>4. appPid[ref[t]] => pc'[t] = "kill" /\ ref'[t] = ref[t]
    BY <1>2 DEF ExchangeApp, StopExchange, Goto, TypeOK
  <2> QED BY <1>2, <2>1, <2>3, <2>4 DEF ExchangeApp, ExchangePid, StillWaits
<1>3. ASSUME NEW t \in Threads, WaitedForApp(t)
      PROVE  LaunchInv'
  <2>1. ref[t] \in Mids
    BY <1>3 DEF WaitedForApp, StopWaited, TypeOK, RefsMatchPcs, RefPcs, StopPcs
  <2>2. \A u \in Threads \ {t} : pc[u] = "kill" => pc'[u] = "kill" /\ ref'[u] = ref[u]
    BY <1>3 DEF WaitedForApp, StopWaited, Goto, TypeOK
  <2> DEFINE n == ref[t]
  <2>3. /\ UNCHANGED <<appPid, watcher, app, killed>>
        /\ \A m \in Mids \ {n} : missed'[m] = missed[m]
        /\ AppAlive(n) => missed'[n] \/ killed'[n]
    BY <1>3, <2>1 DEF WaitedForApp, SeeGroupGone, appVars
  <2>4. ASSUME NEW m \in Mids, AppAlive(m), ~Excused(m)'
        PROVE  \E u \in Threads : ref'[u] = m /\ pc'[u] = "kill"
    <3>1. m # n
      BY <2>3, <2>4
    <3>2. PICK u \in Threads : ref[u] = m /\ pc[u] = "kill"
      BY <2>3, <2>4, <3>1
    <3> QED BY <2>2, <3>1, <3>2
  <2> QED BY <2>3, <2>4
<1>4. ASSUME NEW m \in Mids, NEW ok \in BOOLEAN, NEW plugged \in BOOLEAN,
             StartWithApp(m, ok, plugged)
      PROVE  LaunchInv'
  <2>1. StillWaits
    BY <1>4, WaitersStay DEF StartWithApp
  <2> QED BY <1>4, <2>1 DEF StartWithApp, StartWatch, StillWaits
<1>5. ASSUME NEW m \in Mids, WatcherSteps(m) \/ AppSetsid(m) \/ AppExit(m), UNCHANGED vars
      PROVE  LaunchInv'
  <2>1. StillWaits
    BY <1>5, WaitersStay
  <2> QED BY <1>5, <2>1 DEF WatcherSteps, WatcherPop, WatcherGiveUp, WatcherFork, WatcherStore,
                            AppSetsid, AppExit, StillWaits
<1>6. ASSUME AppReset
      PROVE  LaunchInv'
  BY <1>6 DEF AppReset
<1>7. ASSUME NEW t \in Threads, StopMedia(t), UNCHANGED appVars
      PROVE  LaunchInv'
  BY <1>1, <1>7, WaitersStay
<1>8. ASSUME Https \/ Control \/ PlayMedia \/ UNCHANGED vars, UNCHANGED appVars
      PROVE  LaunchInv'
  BY <1>1, <1>8, WaitersStay
<1>9. ASSUME NEW s \in Sids, Play(s) \/ \E ch \in Channels : Announce(s, ch), UNCHANGED appVars
      PROVE  LaunchInv'
  BY <1>1, <1>9, WaitersStay
<1>10. ASSUME NEW t \in Threads, EscalateApp(t)
       PROVE  LaunchInv'
  <2>1. StillWaits
    BY <1>10, WaitersStay DEF EscalateApp
  <2>2. ref[t] \in Mids
    BY <1>10 DEF EscalateApp, TypeOK, RefsMatchPcs, RefPcs, StopPcs
  <2> QED BY <1>10, <2>1, <2>2 DEF EscalateApp, SendSigkill, StillWaits
<1> HIDE DEF LaunchInv
<1> QED BY <1>2, <1>3, <1>4, <1>5, <1>6, <1>7, <1>8, <1>9, <1>10
        DEF AppsNext, StopApp, PlayApp, PlayAgain, allVars

LEMMA AppsInductive == AppsSpec => [](IInv /\ AppTypeOK)
<1>1. AppsInit => IInv /\ AppTypeOK
  BY OwnershipInit, CustodyInit DEF IInv, AppsInit, AppInit, AppTypeOK
<1>2. IInv /\ AppTypeOK /\ [AppsNext]_allVars => [AnyNext]_vars
  BY AppsStepIsAStep DEF IInv, Ownership, TypeOK
<1>3. IInv /\ AppTypeOK /\ [AppsNext]_allVars => AppTypeOK'
  BY AppTypeStep DEF IInv, Ownership
<1>4. IInv /\ AppTypeOK /\ [AppsNext]_allVars => (IInv /\ AppTypeOK)'
  BY <1>2, <1>3, InductiveStep
<1> QED BY <1>1, <1>4, PTL DEF AppsSpec

(* With the launchers and the apps beside the handlers, every variable     *)
(* keeps its type.                                                         *)
THEOREM AppsTypeCorrect == AppsSpec => []AppsTypeOK
<1>1. IInv /\ AppTypeOK => AppsTypeOK
  BY DEF IInv, AppsTypeOK
<1> QED BY <1>1, AppsInductive, PTL

LEMMA LaunchInductive == AppsSpec => []LaunchInv
<1>1. AppsInit => LaunchInv
  BY DEF AppsInit, AppInit, LaunchInv, AppAlive
<1>2. IInv /\ AppTypeOK /\ LaunchInv /\ [AppsNext]_allVars => LaunchInv'
  BY LaunchStep DEF IInv, Ownership
<1> QED BY <1>1, <1>2, AppsInductive, PTL DEF AppsSpec

(* When PLAY starts new pipelines nobody but the other two threads can     *)
(* have an earlier session's media in hand; an app beside it that none of  *)
(* them is stopping is one that stop() could not end.                      *)
THEOREM PlaysLaunchAlone == AppsSpec => PlayLaunchesAlone
<1> DEFINE Alone ==
      \A m \in Mids : pc["rtsp"] = "start" /\ pc'["rtsp"] = "startAudio" /\ AppAlive(m)
        => \/ phase[m] = "none" /\ Excused(m)
           \/ \E t \in {"https", "control"} : ref[t] = m
<1>1. IInv /\ LaunchInv => [Alone]_allVars
  <2> SUFFICES ASSUME IInv, LaunchInv, NEW m \in Mids, pc["rtsp"] = "start", AppAlive(m),
                      ~ \E t \in {"https", "control"} : ref[t] = m
               PROVE  phase[m] = "none" /\ Excused(m)
    OBVIOUS
  <2>1. holder = NoMedia /\ ref["rtsp"] = NoMedia
    BY DEF IInv, Ownership, PlayOwnsTheHolder, RefsMatchPcs, RefPcs, StopPcs, Threads
  <2>2. m # NoMedia
    BY DEF Mids, NoMedia
  <2>3. phase[m] = "none"
    BY <2>1, <2>2 DEF IInv, Ownership, ExistsWhileReferenced, Referenced, Threads
  <2>4. Excused(m)
    BY <2>1, <2>2 DEF LaunchInv, Threads
  <2> QED BY <2>3, <2>4
<1> QED BY <1>1, LaunchInductive, AppsInductive, PTL DEF AppsSpec, PlayLaunchesAlone

(* Memory is freed by a Drop, or by a restart that resets the apps too.    *)
LEMMA OnlyADropFrees ==
  ASSUME TypeOK, AppsNext, ~AppReset, NEW m \in Mids, phase[m] = "dying", phase'[m] = "none"
  PROVE  \E t \in Threads : Drop(t) /\ ref[t] = m /\ UNCHANGED appVars
<1> USE DEF TypeOK, MediaTypeOK, mediaVars
<1>1. ~Https
  BY DEF Https, Launch, ResumeMove, ResumeKey, Cancel
<1>2. ~Control
  BY DEF Control, Connect, Disconnect, Input, InputApply, SetPads, Terminate
<1>3. ~PlayMedia
  BY DEF PlayMedia, PlayLookup, PlayRead, PlayCheck, PlayResume, CloseAudio, PlayRebuild, ReopenAudio,
         PlayRetarget, PushKey, PlayTake, PlayStartAudio, OpenAudio, PlayPublish
<1>4. ~ \E s \in Sids : PlayAgain(s) \/ \E ch \in Channels : Announce(s, ch)
  BY DEF PlayAgain, Play, Announce
<1>5. ~ \E x \in Mids, ok, plugged \in BOOLEAN : StartWithApp(x, ok, plugged)
  BY DEF StartWithApp, PlayStart, CreateWithVideo
<1>6. ~ \E t \in Threads : ExchangeApp(t) \/ EscalateApp(t) \/ WaitedForApp(t)
  BY DEF ExchangeApp, StopExchange, EscalateApp, WaitedForApp, StopWaited, vars
<1>7. ~ UNCHANGED vars
  BY DEF vars
<1>8. PICK t \in Threads : StopMedia(t) /\ UNCHANGED appVars
  BY <1>1, <1>2, <1>3, <1>4, <1>5, <1>6, <1>7 DEF AppsNext, StopApp, PlayApp
<1>9. Drop(t) /\ ref[t] = m
  BY <1>8 DEF StopMedia, Take, StopVideo, CloseVideo, StopAudio, CloseAudio, Drop, BeginDestructor, Destroy
<1> QED BY <1>8, <1>9

(* An object is destroyed by the one thread that refers to it, which is    *)
(* past its wait: an app that is left was being launched, was missed, or   *)
(* has been sent SIGKILL.                                                  *)
THEOREM LeaksOnlyInLaunchWindow == AppsSpec => LeakOnlyInLaunchWindow
<1> DEFINE Window ==
      \A m \in Mids : phase[m] = "dying" /\ phase'[m] = "none" /\ AppAlive(m)'
        => Excused(m)
<1>1. IInv /\ AppTypeOK /\ LaunchInv /\ [AppsNext]_allVars => [Window]_allVars
  <2> SUFFICES ASSUME IInv, AppTypeOK, LaunchInv, AppsNext, NEW m \in Mids,
                      phase[m] = "dying", phase'[m] = "none", AppAlive(m)'
               PROVE  Excused(m)
    OBVIOUS
  <2>1. ~AppReset
    BY DEF AppReset, AppAlive
  <2>2. PICK t \in Threads : Drop(t) /\ ref[t] = m /\ UNCHANGED appVars
    BY <2>1, OnlyADropFrees DEF IInv
  <2>3. pc[t] = "drop" /\ ref[t] # NoMedia
    BY <2>2 DEF Drop, Mids, NoMedia
  <2>4. \A u \in Threads : ref[u] = m => pc[u] # "kill"
    BY <2>2, <2>3 DEF IInv, Ownership, DyingIsExclusive
  <2>5. AppAlive(m)
    BY <2>2 DEF AppAlive, appVars
  <2> QED BY <2>4, <2>5 DEF LaunchInv
<1> QED BY <1>1, LaunchInductive, AppsInductive, PTL DEF AppsSpec, LeakOnlyInLaunchWindow
=============================================================================
