------------------------- MODULE IdentityStore_proofs -------------------------
(***************************************************************************)
(* Theorems about IdentityStore, for any clients and any number of         *)
(* generations and faults; those about identities as long as               *)
(* STEAM_STREAM_ALLOW_NEW_IDENTITY is not set, which is the default.       *)
(***************************************************************************)
EXTENDS IdentityStore, TLAPS

Generating == {"keyTmp", "certTmp", "keyRename", "certRename"}

(* A new identity is only made where there is none of the two files, and   *)
(* what is renamed into place is of its generation, or empty.  The server  *)
(* serves with a whole identity, and its uuid is saved or known not to be. *)
BootInv ==
  /\ pc \in {"keyTmp", "certTmp", "keyRename"} => key = Absent
  /\ pc \in Generating => cert = Absent
  /\ pc \in {"certTmp", "keyRename"} => keyTmp \in {Absent, gen}
  /\ pc = "certRename" => key \in {Absent, gen}
  /\ pc \in {"keyRename", "certRename"} => certTmp \in {Absent, gen}
  /\ pc \in {"serving", "add", "remove"} => key = cert /\ key # Absent
  /\ pc = "add" => subject \subseteq paired
  /\ pc = "remove" => subject \cap paired = {}
  /\ pc \notin {"add", "remove"} => subject = {}
  /\ pc = "listen" => uuid = myUuid \/ "uuid" \in unsaved
  /\ pc = "copy" => legacy

(* What cp has done with, without a failure, is there.                     *)
Copied ==
  /\ "key" \in todo \/ key = Legacy
  /\ "cert" \in todo \/ cert = Legacy
  /\ "uuid" \in todo \/ uuid = Legacy
  /\ \A c \in Clients : c \in todo \/ c \in stored

(* The legacy identity has been copied, or there is none.                  *)
Settled == ~legacy \/ (pc # "copy" /\ key # Absent)

(* Clients trust the one identity that this host can have.  Before the     *)
(* legacy one is there they are all those of the older image; while a new  *)
(* one is generated there are none.  A client that unpaired and is still   *)
(* on record is known not to be saved.                                     *)
TrustInv ==
  /\ key # Absent /\ cert # Absent => key = cert
  /\ legacy => {key, cert} \subseteq {Absent, Legacy}
  /\ legacy /\ pc \notin {"down", "copy"} => key # Absent
  /\ pc = "copy" => Copied
  /\ ~Settled => knownAs = Legacy /\ \A c \in Clients : trusts[c] = Legacy
  /\ pc \in Generating => \A c \in Clients : trusts[c] = Absent
  /\ \A c \in stored \cup paired : trusts[c] # Absent \/ c \in unsaved
  /\ pc = "add" => \A c \in subject : trusts[c] # Absent
  /\ pc = "remove" => \A c \in subject : trusts[c] = Absent
  /\ \A c \in Clients : trusts[c] # Absent => trusts[c] = IF legacy THEN Legacy ELSE cert

(* Who trusts the server is on disk and in memory, and the uuid is on disk,*)
(* or they are known not to be.                                            *)
SavedInv ==
  /\ Settled => \A c \in Clients : trusts[c] # Absent => c \in stored \cup unsaved
  /\ Settled /\ knownAs # Absent /\ "uuid" \notin unsaved => uuid = knownAs
  /\ pc \notin {"down", "copy", "load"} =>
       \A c \in Clients : trusts[c] # Absent => c \in paired \cup unsaved

IInv ==
  /\ TypeOK /\ BootInv
  /\ migration # "failed" => TrustInv
  /\ migration = "whole" => SavedInv

-----------------------------------------------------------------------------
(***************************************************************************)
(* Type correctness.                                                       *)
(***************************************************************************)
LEMMA Generations == Absent \in Gens /\ Legacy \in Gens /\ Absent # Legacy
BY StoreAssumption DEF Absent, Legacy, Gens

LEMMA Names == \A c \in Clients : c # "key" /\ c # "cert" /\ c # "uuid"
BY StoreAssumption

LEMMA TypeInit == Init => TypeOK
BY Generations, StoreAssumption DEF Init, TypeOK, Pcs

LEMMA TypeStep ==
  ASSUME TypeOK, [Next]_vars
  PROVE  TypeOK'
<1> USE Generations, StoreAssumption
    DEF TypeOK, Pcs, Entries, disk, memory, history, Fault, Ok
<1> SUFFICES ASSUME UNCHANGED legacy PROVE TypeOK'
  BY DEF Next, Progress, Disturbance, vars
<1>1. ASSUME Boot
      PROVE  TypeOK'
  BY <1>1 DEF Boot
<1>2. ASSUME NEW n \in Entries, CopyFill(n)
      PROVE  TypeOK'
  BY <1>2 DEF CopyFill, Put
<1>3. ASSUME CopyDone
      PROVE  TypeOK'
  BY <1>3 DEF CopyDone
<1>4. ASSUME Load
      PROVE  TypeOK'
  <2>1. gen' \in Gens
    BY <1>4 DEF Load, Gens
  <2> QED BY <1>4, <2>1 DEF Load
<1>5. ASSUME WriteKeyTmp
      PROVE  TypeOK'
  BY <1>5 DEF WriteKeyTmp, Written
<1>6. ASSUME WriteCertTmp
      PROVE  TypeOK'
  BY <1>6 DEF WriteCertTmp, Written
<1>7. ASSUME RenameKey
      PROVE  TypeOK'
  BY <1>7 DEF RenameKey
<1>8. ASSUME RenameCert
      PROVE  TypeOK'
  BY <1>8 DEF RenameCert
<1>9. ASSUME LoadUuid
      PROVE  TypeOK'
  BY <1>9 DEF LoadUuid
<1>10. ASSUME NewUuid
      PROVE  TypeOK'
  <2>1. gen + 1 \in Gens
    BY <1>10 DEF NewUuid, Gens
  <2> QED BY <1>10, <2>1 DEF NewUuid
<1>11. ASSUME Listen
      PROVE  TypeOK'
  BY <1>11 DEF Listen
<1>12. ASSUME AddWritten
      PROVE  TypeOK'
  BY <1>12 DEF AddWritten
<1>13. ASSUME NEW n \in Entries, CopyOpen(n)
      PROVE  TypeOK'
  BY <1>13 DEF CopyOpen, Put
<1>14. ASSUME NEW n \in Entries, CopyFails(n)
      PROVE  TypeOK'
  BY <1>14 DEF CopyFails, Put
<1>15. ASSUME NEW c \in Clients, Add(c)
      PROVE  TypeOK'
  BY <1>15 DEF Add
<1>16. ASSUME NEW c \in Clients, Remove(c)
      PROVE  TypeOK'
  BY <1>16 DEF Remove
<1>17. ASSUME Crash
      PROVE  TypeOK'
  BY <1>17 DEF Crash
<1>18. ASSUME RemoveFile
      PROVE  TypeOK'
  BY <1>18 DEF RemoveFile
<1>19. CASE UNCHANGED vars
  BY <1>19 DEF vars
<1> QED BY <1>1, <1>2, <1>3, <1>4, <1>5, <1>6, <1>7, <1>8, <1>9, <1>10, <1>11, <1>12,
           <1>13, <1>14, <1>15, <1>16, <1>17, <1>18, <1>19
        DEF Next, Progress, Disturbance

-----------------------------------------------------------------------------
(***************************************************************************)
(* The boot, and what is renamed into place.                               *)
(***************************************************************************)
LEMMA BootStep ==
  ASSUME ~AllowNew, TypeOK, BootInv, [Next]_vars
  PROVE  BootInv'
<1> SUFFICES ASSUME UNCHANGED legacy PROVE BootInv'
  BY DEF Next, Progress, Disturbance, vars
<1> USE Generations DEF BootInv, Generating, disk, memory, history, Fault, Ok
<1>1. ASSUME Boot
      PROVE  BootInv'
  BY <1>1 DEF Boot
<1>2. ASSUME NEW n \in Entries, CopyFill(n)
      PROVE  BootInv'
  BY <1>2 DEF CopyFill, Put
<1>3. ASSUME CopyDone
      PROVE  BootInv'
  BY <1>3 DEF CopyDone
<1>4. ASSUME Load
      PROVE  BootInv'
  BY <1>4 DEF Load, HalfIdentity
<1>5. ASSUME WriteKeyTmp
      PROVE  BootInv'
  BY <1>5 DEF WriteKeyTmp, Written
<1>6. ASSUME WriteCertTmp
      PROVE  BootInv'
  BY <1>6 DEF WriteCertTmp, Written
<1>7. ASSUME RenameKey
      PROVE  BootInv'
  BY <1>7 DEF RenameKey
<1>8. ASSUME RenameCert
      PROVE  BootInv'
  BY <1>8 DEF RenameCert
<1>9. ASSUME LoadUuid
      PROVE  BootInv'
  BY <1>9 DEF LoadUuid
<1>10. ASSUME NewUuid
      PROVE  BootInv'
  BY <1>10 DEF NewUuid, TypeOK
<1>11. ASSUME Listen
      PROVE  BootInv'
  BY <1>11 DEF Listen
<1>12. ASSUME AddWritten
      PROVE  BootInv'
  BY <1>12 DEF AddWritten
<1>13. ASSUME NEW n \in Entries, CopyOpen(n)
      PROVE  BootInv'
  BY <1>13 DEF CopyOpen, Put
<1>14. ASSUME NEW n \in Entries, CopyFails(n)
      PROVE  BootInv'
  BY <1>14 DEF CopyFails, Put
<1>15. ASSUME NEW c \in Clients, Add(c)
      PROVE  BootInv'
  BY <1>15 DEF Add
<1>16. ASSUME NEW c \in Clients, Remove(c)
      PROVE  BootInv'
  BY <1>16 DEF Remove
<1>17. ASSUME Crash
      PROVE  BootInv'
  BY <1>17 DEF Crash
<1>18. ASSUME RemoveFile
      PROVE  BootInv'
  BY <1>18 DEF RemoveFile
<1>19. CASE UNCHANGED vars
  BY <1>19 DEF vars
<1> QED BY <1>1, <1>2, <1>3, <1>4, <1>5, <1>6, <1>7, <1>8, <1>9, <1>10, <1>11, <1>12,
           <1>13, <1>14, <1>15, <1>16, <1>17, <1>18, <1>19
        DEF Next, Progress, Disturbance

-----------------------------------------------------------------------------
(***************************************************************************)
(* What clients trust, and what is saved of it.                            *)
(***************************************************************************)
LEMMA TrustStep ==
  ASSUME ~AllowNew, TypeOK, BootInv, TrustInv, [Next]_vars, migration' # "failed"
  PROVE  TrustInv'
<1> SUFFICES ASSUME UNCHANGED legacy PROVE TrustInv'
  BY DEF Next, Progress, Disturbance, vars
<1> USE Generations, Names
    DEF TypeOK, BootInv, TrustInv, Generating, Copied, Settled, Entries, disk, memory, history, Fault, Ok
<1>1. ASSUME Boot
      PROVE  TrustInv'
  BY <1>1 DEF Boot
<1>2. ASSUME NEW n \in Entries, CopyFill(n)
      PROVE  TrustInv'
  BY <1>2 DEF CopyFill, Put
<1>3. ASSUME CopyDone
      PROVE  TrustInv'
  BY <1>3 DEF CopyDone
<1>4. ASSUME Load
      PROVE  TrustInv'
  BY <1>4 DEF Load, HalfIdentity
<1>5. ASSUME WriteKeyTmp
      PROVE  TrustInv'
  BY <1>5 DEF WriteKeyTmp, Written
<1>6. ASSUME WriteCertTmp
      PROVE  TrustInv'
  BY <1>6 DEF WriteCertTmp, Written
<1>7. ASSUME RenameKey
      PROVE  TrustInv'
  BY <1>7 DEF RenameKey
<1>8. ASSUME RenameCert
      PROVE  TrustInv'
  BY <1>8 DEF RenameCert
<1>9. ASSUME LoadUuid
      PROVE  TrustInv'
  BY <1>9 DEF LoadUuid
<1>10. ASSUME NewUuid
      PROVE  TrustInv'
  BY <1>10 DEF NewUuid
<1>11. ASSUME Listen
      PROVE  TrustInv'
  BY <1>11 DEF Listen
<1>12. ASSUME AddWritten
      PROVE  TrustInv'
  BY <1>12 DEF AddWritten
<1>13. ASSUME NEW n \in Entries, CopyOpen(n)
      PROVE  TrustInv'
  BY <1>13 DEF CopyOpen, Put
<1>14. ASSUME NEW n \in Entries, CopyFails(n)
      PROVE  TrustInv'
  BY <1>14 DEF CopyFails, Put
<1>15. ASSUME NEW c \in Clients, Add(c)
      PROVE  TrustInv'
  BY <1>15 DEF Add
<1>16. ASSUME NEW c \in Clients, Remove(c)
      PROVE  TrustInv'
  BY <1>16 DEF Remove
<1>17. ASSUME Crash
      PROVE  TrustInv'
  BY <1>17 DEF Crash
<1>18. ASSUME RemoveFile
      PROVE  TrustInv'
  BY <1>18 DEF RemoveFile
<1>19. CASE UNCHANGED vars
  BY <1>19 DEF vars
<1> QED BY <1>1, <1>2, <1>3, <1>4, <1>5, <1>6, <1>7, <1>8, <1>9, <1>10, <1>11, <1>12,
           <1>13, <1>14, <1>15, <1>16, <1>17, <1>18, <1>19
        DEF Next, Progress, Disturbance

LEMMA SavedStep ==
  ASSUME ~AllowNew, TypeOK, BootInv, TrustInv, SavedInv, [Next]_vars, migration' = "whole"
  PROVE  SavedInv'
<1> SUFFICES ASSUME UNCHANGED legacy PROVE SavedInv'
  BY DEF Next, Progress, Disturbance, vars
<1> USE Generations, Names
    DEF TypeOK, BootInv, TrustInv, SavedInv, Generating, Copied, Settled, Entries, disk, memory, history, Fault, Ok
<1>1. ASSUME Boot
      PROVE  SavedInv'
  BY <1>1 DEF Boot
<1>2. ASSUME NEW n \in Entries, CopyFill(n)
      PROVE  SavedInv'
  BY <1>2 DEF CopyFill, Put
<1>3. ASSUME CopyDone
      PROVE  SavedInv'
  BY <1>3 DEF CopyDone
<1>4. ASSUME Load
      PROVE  SavedInv'
  BY <1>4 DEF Load, HalfIdentity
<1>5. ASSUME WriteKeyTmp
      PROVE  SavedInv'
  BY <1>5 DEF WriteKeyTmp, Written
<1>6. ASSUME WriteCertTmp
      PROVE  SavedInv'
  BY <1>6 DEF WriteCertTmp, Written
<1>7. ASSUME RenameKey
      PROVE  SavedInv'
  BY <1>7 DEF RenameKey
<1>8. ASSUME RenameCert
      PROVE  SavedInv'
  BY <1>8 DEF RenameCert
<1>9. ASSUME LoadUuid
      PROVE  SavedInv'
  BY <1>9 DEF LoadUuid
<1>10. ASSUME NewUuid
      PROVE  SavedInv'
  BY <1>10 DEF NewUuid
<1>11. ASSUME Listen
      PROVE  SavedInv'
  BY <1>11 DEF Listen
<1>12. ASSUME AddWritten
      PROVE  SavedInv'
  BY <1>12 DEF AddWritten
<1>13. ASSUME NEW n \in Entries, CopyOpen(n)
      PROVE  SavedInv'
  BY <1>13 DEF CopyOpen, Put
<1>14. ASSUME NEW n \in Entries, CopyFails(n)
      PROVE  SavedInv'
  BY <1>14 DEF CopyFails, Put
<1>15. ASSUME NEW c \in Clients, Add(c)
      PROVE  SavedInv'
  BY <1>15 DEF Add
<1>16. ASSUME NEW c \in Clients, Remove(c)
      PROVE  SavedInv'
  BY <1>16 DEF Remove
<1>17. ASSUME Crash
      PROVE  SavedInv'
  BY <1>17 DEF Crash
<1>18. ASSUME RemoveFile
      PROVE  SavedInv'
  BY <1>18 DEF RemoveFile
<1>19. CASE UNCHANGED vars
  BY <1>19 DEF vars
<1> QED BY <1>1, <1>2, <1>3, <1>4, <1>5, <1>6, <1>7, <1>8, <1>9, <1>10, <1>11, <1>12,
           <1>13, <1>14, <1>15, <1>16, <1>17, <1>18, <1>19
        DEF Next, Progress, Disturbance

(* A migration that has failed stays so, and one that was cut short is not *)
(* whole again.                                                            *)
LEMMA MigrationStep ==
  ASSUME [Next]_vars
  PROVE  /\ migration' # "failed" => migration # "failed"
         /\ migration' = "whole" => migration = "whole"
BY DEF Next, Progress, Disturbance, vars, history, Boot, CopyFill, CopyDone, Load, WriteKeyTmp,
       WriteCertTmp, RenameKey, RenameCert, LoadUuid, NewUuid, Listen, AddWritten, CopyOpen,
       CopyFails, Add, Remove, RemoveFile, Crash

LEMMA InvInit == Init => IInv
<1> SUFFICES ASSUME Init PROVE IInv
  OBVIOUS
<1> USE Generations DEF Init
<1>1. BootInv
  BY DEF BootInv, Generating
<1>2. TrustInv
  BY DEF TrustInv, Settled, Generating
<1>3. SavedInv
  BY DEF SavedInv, Settled
<1> QED BY TypeInit, <1>1, <1>2, <1>3 DEF IInv

LEMMA InvStep == ~AllowNew => (IInv /\ [Next]_vars => IInv')
BY TypeStep, BootStep, TrustStep, SavedStep, MigrationStep DEF IInv

-----------------------------------------------------------------------------
(* No crash and no full disk makes key.pem and cert.pem differ, or a boot  *)
(* replace the identity that its paired clients trust.                     *)
THEOREM StoreInvHolds ==
  ASSUME ~AllowNew
  PROVE  Spec => []StoreInv
<1>1. IInv /\ [Next]_vars => IInv'
  BY InvStep
<1>2. IInv => StoreInv
  <2>1. TypeOK /\ (migration # "failed" => TrustInv) => KeyMatchesCert
    BY DEF TrustInv, KeyMatchesCert
  <2>2. TypeOK /\ BootInv /\ (migration # "failed" => TrustInv) => IdentityKept
    BY DEF TypeOK, BootInv, TrustInv, IdentityKept
  <2> QED BY <2>1, <2>2 DEF IInv, StoreInv
<1> QED BY InvInit, <1>1, <1>2, PTL DEF Spec

(* A client that was told it is paired stays paired over any crashes.      *)
THEOREM LostOnlyUnsavedHolds ==
  ASSUME ~AllowNew
  PROVE  Spec => []LostOnlyUnsaved
<1>1. IInv /\ [Next]_vars => IInv'
  BY InvStep
<1>2. IInv => LostOnlyUnsaved
  BY DEF IInv, SavedInv, LostOnlyUnsaved
<1> QED BY InvInit, <1>1, <1>2, PTL DEF Spec

(* The uuid by which clients know this host does not change.               *)
THEOREM UuidStableHolds ==
  ASSUME ~AllowNew
  PROVE  Spec => UuidStable
<1>1. IInv /\ [Next]_vars => IInv'
  BY InvStep
<1>2. IInv /\ [Next]_vars =>
        [knownAs # Absent /\ "uuid" \notin unsaved /\ migration = "whole" => knownAs' = knownAs]_vars
  <2>1. SUFFICES ASSUME IInv, Next, knownAs # Absent, "uuid" \notin unsaved, migration = "whole"
                 PROVE  knownAs' = knownAs
    OBVIOUS
  <2>2. CASE Listen
    <3>1. TrustInv /\ SavedInv /\ BootInv
      BY <2>1 DEF IInv
    <3>2. pc = "listen"
      BY <2>2 DEF Listen
    <3>3. Settled
      BY <3>1, <3>2 DEF TrustInv, Settled
    <3>4. uuid = knownAs /\ uuid = myUuid
      BY <2>1, <3>1, <3>2, <3>3 DEF SavedInv, BootInv
    <3> QED BY <2>2, <3>4 DEF Listen
  <2>3. CASE ~Listen
    BY <2>1, <2>3
    DEF Next, Progress, Disturbance, history, Boot, CopyFill, CopyDone, Load, WriteKeyTmp,
        WriteCertTmp, RenameKey, RenameCert, LoadUuid, NewUuid, AddWritten, CopyOpen,
        CopyFails, Add, Remove, RemoveFile, Crash
  <2> QED BY <2>2, <2>3
<1> QED BY InvInit, <1>1, <1>2, PTL DEF Spec, UuidStable
=============================================================================
