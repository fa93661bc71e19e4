--------------------------- MODULE SessionRegistry ---------------------------
(***************************************************************************)
(* The registry of stream sessions (session::SessionRegistry) and the      *)
(* fields of a session::StreamSession that other threads act upon.         *)
(*                                                                         *)
(* The C++ registry is a vector, but ids come from next_id_ and sessions   *)
(* are only ever appended, both on the one HTTPS thread, so the vector is  *)
(* always sorted by id: a set of ids with "the front is the least id" is   *)
(* the same data structure.                                                *)
(***************************************************************************)
EXTENDS Naturals

CONSTANTS
  Ips,          (* addresses clients connect from                           *)
  NoIp,         (* the client_ip of a session object not yet created        *)
  Keys,         (* rikey/rikeyid pairs that a request can carry             *)
  NoKey,        (* the empty pair: rikey or rikeyid absent from the request *)
  Channels,     (* audio layouts an ANNOUNCE can negotiate                  *)
  Stereo,       (* the layout of a session before its first ANNOUNCE        *)
  MaxSessions   (* bound on sessions created in a run of the server         *)

ASSUME RegistryAssumption ==
  /\ NoIp \notin Ips
  /\ Stereo \in Channels
  /\ MaxSessions \in Nat

Sids == 1 .. MaxSessions
NoSession == 0      \* nullptr from a lookup; ids start at 1

VARIABLES
  registry,     (* ids of the sessions in sessions_                         *)
  nextId,       (* next_id_                                                 *)
  clientIp,     (* client_ip of each session object                         *)
  aesKey,       (* aes_key together with aes_iv                             *)
  channels      (* audio.channels, negotiated by ANNOUNCE                   *)

registryVars == <<registry, nextId, clientIp, aesKey, channels>>

RegistryTypeOK ==
  /\ registry \subseteq Sids
  /\ nextId \in 1 .. (MaxSessions + 1)
  /\ clientIp \in [Sids -> Ips \cup {NoIp}]
  /\ aesKey \in [Sids -> Keys \cup {NoKey}]
  /\ channels \in [Sids -> Channels]

(* Faulty variant: ids count from 0, which is also "no session".           *)
RegistryInitFromZero ==
  /\ registry = {}
  /\ nextId = 0
  /\ clientIp = [s \in Sids |-> NoIp]
  /\ aesKey = [s \in Sids |-> NoKey]
  /\ channels = [s \in Sids |-> Stereo]

RegistryInit ==
  /\ registry = {}
  /\ nextId = 1
  /\ clientIp = [s \in Sids |-> NoIp]
  /\ aesKey = [s \in Sids |-> NoKey]
  /\ channels = [s \in Sids |-> Stereo]

(***************************************************************************)
(* Lookups.  Each returns the first match in registration order.           *)
(***************************************************************************)
Front(S) ==
  IF S = {} THEN NoSession ELSE CHOOSE s \in S : \A x \in S : s <= x

GetByClientIp(ip) == Front({s \in registry : clientIp[s] = ip})

GetRunning == Front(registry)

GetById(s) == IF s \in registry THEN s ELSE NoSession

(* Faulty variant: adopt the running session without looking for one's own.*)
ResumeTargetRunning(ip) == GetRunning

(* /resume: the session of this address, else the one that is running.     *)
ResumeTarget(ip) ==
  IF GetByClientIp(ip) # NoSession THEN GetByClientIp(ip) ELSE GetRunning

(***************************************************************************)
(* Updates.                                                                *)
(***************************************************************************)

(* create_launch_session and add                                           *)
AddSession(ip, k) ==
  /\ nextId <= MaxSessions
  /\ registry' = registry \cup {nextId}
  /\ nextId' = nextId + 1
  /\ clientIp' = [clientIp EXCEPT ![nextId] = ip]
  /\ aesKey' = [aesKey EXCEPT ![nextId] = k]
  /\ UNCHANGED channels

RemoveSession(s) ==
  /\ registry' = registry \ {s}
  /\ UNCHANGED <<nextId, clientIp, aesKey, channels>>

(* /resume from another address adopts the new client.                     *)
MoveClient(s, ip) ==
  /\ clientIp' = [clientIp EXCEPT ![s] = ip]
  /\ UNCHANGED <<registry, nextId, aesKey, channels>>

(* /resume re-captures the key, unless the request leaves it out.          *)
RotateKey(s, k) ==
  /\ aesKey' = IF k = NoKey THEN aesKey ELSE [aesKey EXCEPT ![s] = k]
  /\ UNCHANGED <<registry, nextId, clientIp, channels>>

SetChannels(s, ch) ==
  /\ channels' = [channels EXCEPT ![s] = ch]
  /\ UNCHANGED <<registry, nextId, clientIp, aesKey>>

(* What a restart of the process leaves: nothing here is persisted.        *)
RegistryReset ==
  /\ registry' = {}
  /\ nextId' = 1
  /\ clientIp' = [s \in Sids |-> NoIp]
  /\ aesKey' = [s \in Sids |-> NoKey]
  /\ channels' = [s \in Sids |-> Stereo]
=============================================================================
