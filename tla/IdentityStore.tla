---------------------------- MODULE IdentityStore ----------------------------
(***************************************************************************)
(* The server's identity and its paired clients on disk (state::AppState,  *)
(* x509::write_to_disk), and the container's boot that migrates and loads  *)
(* them (entrypoint.sh, AppState::init), with crashes between any two      *)
(* steps and writes that a full disk leaves empty.                         *)
(*                                                                         *)
(* A file is worth the number of the identity or uuid it holds.  Every     *)
(* file is smaller than a block and a stdio buffer, so it is whole or      *)
(* empty, and the code treats an empty file as an absent one.  What throws *)
(* ends the process, as a crash does.                                      *)
(***************************************************************************)
EXTENDS Integers

CONSTANTS
  Clients,      (* client certificates                                      *)
  MaxGen,       (* bound on the identities and uuids ever generated         *)
  MaxFaults,    (* bound on crashes and failed writes                       *)
  AllowNew      (* STEAM_STREAM_ALLOW_NEW_IDENTITY is set                   *)

ASSUME StoreAssumption ==
  /\ MaxGen \in Nat \ {0}
  /\ MaxFaults \in Nat
  /\ AllowNew \in BOOLEAN
  /\ Clients \cap {"key", "cert", "uuid"} = {}

Absent == 0
Legacy == 1         \* the identity and uuid in the legacy directory
Gens == 0 .. MaxGen

VARIABLES
  key, cert,        (* key.pem, cert.pem                                    *)
  keyTmp, certTmp,  (* key.pem.tmp, cert.pem.tmp                            *)
  uuid,             (* the uuid file                                        *)
  stored,           (* clients with a .pem in clients/                      *)
  pc,               (* where the boot, or the server, stands                *)
  todo,             (* what cp -a has yet to copy                           *)
  paired,           (* paired_clients_                                      *)
  myUuid,           (* AppState::uuid                                       *)
  subject,          (* the client add_ or remove_paired_client works on     *)
  gen,              (* history: the newest identity or uuid generated       *)
  faults,           (* history: crashes and failed writes so far            *)
  trusts,           (* history: the identity each client has paired with    *)
  unsaved,          (* history: the uuid, and clients, whose file does not  *)
                    (* say yet what they were told, or could not be made to *)
  legacy,           (* $HOME/.steam-stream holds the state of an older image*)
  migration,        (* history: whole, cut short by a crash, or failed with *)
                    (* the warning that clients may need to re-pair         *)
  knownAs           (* history: the uuid the clients know this host by      *)

disk == <<key, cert, keyTmp, certTmp, uuid, stored>>
memory == <<paired, myUuid, subject>>
history == <<gen, faults, trusts, unsaved, migration, knownAs>>
vars == <<disk, pc, todo, memory, legacy, history>>

Pcs == {"down", "copy", "load", "keyTmp", "certTmp", "keyRename", "certRename",
        "uuid", "listen", "serving", "add", "remove"}
Entries == {"key", "cert", "uuid"} \cup Clients

TypeOK ==
  /\ {key, cert, keyTmp, certTmp, uuid, myUuid, gen, knownAs} \subseteq Gens
  /\ stored \subseteq Clients /\ paired \subseteq Clients
  /\ unsaved \subseteq Clients \cup {"uuid"}
  /\ pc \in Pcs
  /\ todo \subseteq Entries
  /\ subject \subseteq Clients
  /\ faults \in 0 .. MaxFaults
  /\ trusts \in [Clients -> Gens]
  /\ legacy \in BOOLEAN
  /\ migration \in {"whole", "cut", "failed"}

(* Every client of the older image is paired with its identity.            *)
Init ==
  /\ key = Absent /\ cert = Absent /\ keyTmp = Absent /\ certTmp = Absent
  /\ uuid = Absent
  /\ stored = {}
  /\ pc = "down"
  /\ todo = {}
  /\ paired = {} /\ myUuid = Absent /\ subject = {}
  /\ legacy \in BOOLEAN
  /\ gen = IF legacy THEN Legacy ELSE Absent
  /\ faults = 0
  /\ trusts = [c \in Clients |-> IF legacy THEN Legacy ELSE Absent]
  /\ unsaved = {}
  /\ migration = "whole"
  /\ knownAs = IF legacy THEN Legacy ELSE Absent

Fault == faults < MaxFaults /\ faults' = faults + 1
Ok == UNCHANGED faults

-----------------------------------------------------------------------------
(***************************************************************************)
(* entrypoint.sh: migrate the legacy directory, unless there is a key.     *)
(***************************************************************************)

Boot ==
  /\ pc = "down"
  /\ IF legacy /\ key = Absent
       THEN pc' = "copy" /\ todo' = Entries
       ELSE pc' = "load" /\ UNCHANGED todo
  /\ UNCHANGED <<disk, memory, history>>

(* The content of entry n becomes g, for a client: there or not there.     *)
Put(n, g) ==
  /\ key' = IF n = "key" THEN g ELSE key
  /\ cert' = IF n = "cert" THEN g ELSE cert
  /\ uuid' = IF n = "uuid" THEN g ELSE uuid
  /\ stored' = IF n \notin Clients THEN stored
               ELSE IF g = Absent THEN stored \ {n} ELSE stored \cup {n}
  /\ UNCHANGED <<keyTmp, certTmp>>

(* cp opens a file with O_TRUNC, then fills it.  The entries come in       *)
(* directory order, which is any order.                                    *)
CopyOpen(n) ==
  /\ pc = "copy" /\ n \in todo
  /\ Put(n, Absent)
  /\ UNCHANGED <<pc, todo, memory, history>>

CopyFill(n) ==
  /\ pc = "copy" /\ n \in todo
  /\ Put(n, Legacy)
  /\ todo' = todo \ {n}
  /\ UNCHANGED <<pc, memory, history>>

(* cp goes on with the other entries, and the boot goes on after a warning *)
(* that "clients may need to re-pair".                                     *)
CopyFails(n) ==
  /\ pc = "copy" /\ n \in todo
  /\ Fault
  /\ Put(n, Absent)
  /\ todo' = todo \ {n}
  /\ migration' = "failed"
  /\ UNCHANGED <<pc, memory, gen, trusts, unsaved, knownAs>>

CopyDone ==
  /\ pc = "copy" /\ todo = {}
  /\ pc' = "load"
  /\ UNCHANGED <<disk, todo, memory, history>>

-----------------------------------------------------------------------------
(***************************************************************************)
(* AppState::init and x509::write_to_disk.                                 *)
(***************************************************************************)
HalfIdentity == (key = Absent) # (cert = Absent)

(* Faulty variant: the old behaviour, regenerate when a half is missing.   *)
LoadRegenerates ==
  /\ pc = "load"
  /\ paired' = stored
  /\ IF key = Absent \/ cert = Absent
       THEN pc' = "keyTmp" /\ gen < MaxGen /\ gen' = gen + 1
       ELSE pc' = "uuid" /\ UNCHANGED gen
  /\ UNCHANGED <<disk, todo, myUuid, subject, faults, trusts, unsaved, migration, knownAs>>

(* Faulty variant: an empty file counts as present.                        *)
LoadEmpty ==
  /\ pc = "load"
  /\ paired' = stored
  /\ IF gen = Absent
       THEN pc' = "keyTmp" /\ gen' = gen + 1
       ELSE pc' = "uuid" /\ UNCHANGED gen
  /\ UNCHANGED <<disk, todo, myUuid, subject, faults, trusts, unsaved, migration, knownAs>>

(* Half an identity is refused, both halves missing are generated.         *)
Load ==
  /\ pc = "load"
  /\ \/ /\ HalfIdentity /\ ~AllowNew
        /\ pc' = "down"
        /\ UNCHANGED <<paired, gen>>
     \/ /\ ~HalfIdentity \/ AllowNew
        /\ key = Absent \/ cert = Absent
        /\ gen < MaxGen
        /\ gen' = gen + 1
        /\ pc' = "keyTmp"
        /\ paired' = stored
     \/ /\ key # Absent /\ cert # Absent
        /\ pc' = "uuid"
        /\ paired' = stored
        /\ UNCHANGED gen
  /\ UNCHANGED <<disk, todo, myUuid, subject, faults, trusts, unsaved, migration, knownAs>>

(* A write to a temporary: the error of a full disk only shows at fclose,  *)
(* which is not checked, and the file stays empty.                         *)
Written(g, g1) == (g1 = g /\ Ok) \/ (g1 = Absent /\ Fault)

WriteKeyTmp ==
  /\ pc = "keyTmp"
  /\ Written(gen, keyTmp')
  /\ pc' = "certTmp"
  /\ UNCHANGED <<key, cert, certTmp, uuid, stored, todo, memory, gen, trusts, unsaved, migration, knownAs>>

WriteCertTmp ==
  /\ pc = "certTmp"
  /\ Written(gen, certTmp')
  /\ pc' = "keyRename"
  /\ UNCHANGED <<key, cert, keyTmp, uuid, stored, todo, memory, gen, trusts, unsaved, migration, knownAs>>

RenameKey ==
  /\ pc = "keyRename"
  /\ key' = keyTmp
  /\ keyTmp' = Absent
  /\ pc' = "certRename"
  /\ UNCHANGED <<cert, certTmp, uuid, stored, todo, memory, history>>

RenameCert ==
  /\ pc = "certRename"
  /\ cert' = certTmp
  /\ certTmp' = Absent
  /\ pc' = "uuid"
  /\ UNCHANGED <<key, keyTmp, uuid, stored, todo, memory, history>>

(* write_file renames only what was written whole; the server goes on with *)
(* a uuid that could not be saved.                                         *)
LoadUuid ==
  /\ pc = "uuid" /\ uuid # Absent
  /\ myUuid' = uuid
  /\ pc' = "listen"
  /\ UNCHANGED <<disk, todo, paired, subject, history>>

(* Faulty variant: the uuid is used but not kept.                          *)
NewUuidUnsaved ==
  /\ pc = "uuid" /\ uuid = Absent
  /\ gen < MaxGen
  /\ gen' = gen + 1
  /\ myUuid' = gen + 1
  /\ pc' = "listen"
  /\ UNCHANGED <<disk, todo, paired, subject, faults, trusts, unsaved, migration, knownAs>>

NewUuid ==
  /\ pc = "uuid" /\ uuid = Absent
  /\ gen < MaxGen
  /\ gen' = gen + 1
  /\ myUuid' = gen + 1
  /\ \/ uuid' = gen + 1 /\ UNCHANGED unsaved /\ Ok
     \/ UNCHANGED uuid /\ unsaved' = unsaved \cup {"uuid"} /\ Fault
  /\ pc' = "listen"
  /\ UNCHANGED <<key, cert, keyTmp, certTmp, stored, todo, paired, subject, trusts, migration, knownAs>>

(* The HTTPS server loads both halves again, and throws unless they match. *)
Listen ==
  /\ pc = "listen"
  /\ IF key # Absent /\ key = cert
       THEN /\ pc' = "serving" /\ knownAs' = myUuid
            /\ unsaved' = IF uuid = myUuid THEN unsaved \ {"uuid"} ELSE unsaved
            /\ UNCHANGED memory
       ELSE /\ pc' = "down" /\ paired' = {} /\ myUuid' = Absent
            /\ UNCHANGED <<subject, unsaved, knownAs>>
  /\ UNCHANGED <<disk, todo, gen, faults, trusts, migration>>

-----------------------------------------------------------------------------
(***************************************************************************)
(* add_paired_client and remove_paired_client, on the running server, each *)
(* under the mutex.                                                        *)
(***************************************************************************)

(* Faulty variant: the client's file is truncated and written in place.    *)
AddInPlace(c) ==
  /\ pc = "serving"
  /\ trusts' = [trusts EXCEPT ![c] = cert]
  /\ unsaved' = IF c \in stored THEN unsaved \ {c} ELSE unsaved \cup {c}
  /\ stored' = stored \ {c}
  /\ paired' = paired \cup {c}
  /\ subject' = {c}
  /\ pc' = "add"
  /\ UNCHANGED <<key, cert, keyTmp, certTmp, uuid, todo, myUuid, gen, faults, migration, knownAs>>

(* The answer "paired" has been sent when add_paired_client is called.     *)
Add(c) ==
  /\ pc = "serving"
  /\ trusts' = [trusts EXCEPT ![c] = cert]
  /\ unsaved' = IF c \in stored THEN unsaved \ {c} ELSE unsaved \cup {c}
  /\ paired' = paired \cup {c}
  /\ subject' = {c}
  /\ pc' = "add"
  /\ UNCHANGED <<disk, todo, myUuid, gen, faults, migration, knownAs>>

AddWritten ==
  /\ pc = "add"
  /\ \/ stored' = stored \cup subject /\ unsaved' = unsaved \ subject /\ Ok
     \/ UNCHANGED <<stored, unsaved>> /\ Fault
  /\ subject' = {}
  /\ pc' = "serving"
  /\ UNCHANGED <<key, cert, keyTmp, certTmp, uuid, todo, paired, myUuid, gen, trusts,
                 migration, knownAs>>

(* /unpair: from memory first.                                             *)
Remove(c) ==
  /\ pc = "serving"
  /\ trusts' = [trusts EXCEPT ![c] = Absent]
  /\ unsaved' = IF c \in stored THEN unsaved \cup {c} ELSE unsaved \ {c}
  /\ paired' = paired \ {c}
  /\ subject' = {c}
  /\ pc' = "remove"
  /\ UNCHANGED <<disk, todo, myUuid, gen, faults, migration, knownAs>>

(* Then from the disk; the error of fs::remove is ignored.                 *)
RemoveFile ==
  /\ pc = "remove"
  /\ \/ stored' = stored \ subject /\ unsaved' = unsaved \ subject /\ Ok
     \/ UNCHANGED <<stored, unsaved>> /\ Fault
  /\ subject' = {}
  /\ pc' = "serving"
  /\ UNCHANGED <<key, cert, keyTmp, certTmp, uuid, todo, paired, myUuid, gen, trusts,
                 migration, knownAs>>

(* The process or the container dies at any point, or an exception leaves  *)
(* init; the restart policy boots it again.                                *)
Crash ==
  /\ pc # "down"
  /\ Fault
  /\ pc' = "down"
  /\ todo' = {}
  /\ paired' = {} /\ myUuid' = Absent /\ subject' = {}
  /\ migration' = IF pc = "copy" /\ migration = "whole" THEN "cut" ELSE migration
  /\ UNCHANGED <<disk, gen, trusts, unsaved, knownAs>>

Progress ==
  /\ UNCHANGED legacy
  /\ \/ Boot
     \/ \E n \in Entries : CopyFill(n)
     \/ CopyDone
     \/ Load
     \/ WriteKeyTmp \/ WriteCertTmp \/ RenameKey \/ RenameCert
     \/ LoadUuid \/ NewUuid
     \/ Listen
     \/ AddWritten \/ RemoveFile

Disturbance ==
  /\ UNCHANGED legacy
  /\ \/ \E n \in Entries : CopyOpen(n) \/ CopyFails(n)
     \/ \E c \in Clients : Add(c) \/ Remove(c)
     \/ Crash

Next == Progress \/ Disturbance

Spec == Init /\ [][Next]_vars

(* A boot runs on; "restart: unless-stopped" starts the next one.          *)
FairSpec == Spec /\ WF_vars(Progress)
-----------------------------------------------------------------------------
(***************************************************************************)
(* Properties.                                                             *)
(***************************************************************************)

(* Safety.  Types, and: key.pem and cert.pem, when both are there, are of  *)
(* one generation: a boot never pairs a new key with the certificate of a  *)
(* generation that was cut short.  (A migration that failed may mix them.) *)
KeyMatchesCert ==
  key # Absent /\ cert # Absent /\ pc # "certRename" /\ migration # "failed"
    => key = cert

(* Safety.  A client that the server knows as paired trusts the identity   *)
(* the server shows: no crash, not even one in the middle of a migration,  *)
(* makes a boot mint a new identity over existing pairings; only a         *)
(* migration that has warned of it does.  Nor does a client that unpaired  *)
(* come back, unless its file could not be removed, or a crash came first. *)
IdentityKept ==
  pc = "serving" /\ migration # "failed" =>
    \A c \in paired : trusts[c] = cert \/ (trusts[c] = Absent /\ c \in unsaved)

(* Safety.  Types and the two above.                                       *)
StoreInv == TypeOK /\ KeyMatchesCert /\ IdentityKept

(* Safety.  A client that was told it is paired stays paired over crashes  *)
(* and full disks, unless its own file could not be written or the         *)
(* migration was disturbed.                                                *)
LostOnlyUnsaved ==
  pc = "serving" /\ migration = "whole" =>
    \A c \in Clients : trusts[c] # Absent => c \in paired \cup unsaved

(* Action.  The uuid by which clients know this host never changes, unless *)
(* it could not be saved or the migration was disturbed.                   *)
UuidStable ==
  [][knownAs # Absent /\ "uuid" \notin unsaved /\ migration = "whole"
       => knownAs' = knownAs]_vars

(* Liveness.  After whatever faults, the server serves again, unless a     *)
(* half identity stops it, or the mixed one of a migration that failed.    *)
Recovers ==
  []<>(\/ pc \in {"serving", "add", "remove"}
       \/ HalfIdentity
       \/ migration = "failed" /\ key # cert)

(***************************************************************************)
(* Statements of the repository that the code does not keep; no run checks *)
(* them, README says what breaks them.                                     *)
(***************************************************************************)

(* "A key without its cert (or vice versa)" never comes about, as both are *)
(* "renamed into place only once both succeeded" (x509.cpp).               *)
NoHalfIdentity == pc = "load" => ~HalfIdentity

(* Legacy state has "migrated to /var/lib/steam-stream" once the server    *)
(* runs on it (verify-state-persistence.sh): identity and clients.         *)
Migrated ==
  pc = "serving" /\ legacy /\ migration # "failed" =>
    /\ cert = Legacy
    /\ \A c \in Clients : trusts[c] # Absent => c \in paired \cup unsaved
=============================================================================
