------------------------------- MODULE Pairing -------------------------------
(***************************************************************************)
(* Pairing (http_pair of servers.cpp, the pairing cache of state.cpp): a   *)
(* handshake of four requests, the first of which waits, on a thread of    *)
(* its own, for the user to enter the PIN that the client shows.           *)
(*                                                                         *)
(* One thread serves HTTP.  An attempt stands for all that is drawn anew   *)
(* for it: the client's salt, PIN and secret, and the server's page secret *)
(* and challenge.  A key is a salt with a PIN, so it is right if both are  *)
(* of the same attempt.  Clients follow the protocol, but may give up at   *)
(* any point and begin anew while their requests are under way.            *)
(*                                                                         *)
(* The cache is keyed by the uniqueid a client sends and the address it    *)
(* comes from.  Two devices behind one address that send the same uniqueid *)
(* share an entry, and run their handshakes through each other's.          *)
(***************************************************************************)
EXTENDS Naturals

CONSTANTS
  Devices,      (* the clients                                              *)
  Ids, Ips,     (* uniqueids and addresses                                  *)
  Homes,        (* the uniqueid and address each device may have, shared or *)
                (* not                                                      *)
  MaxAttempts   (* bound on handshakes ever begun                           *)

CacheKeys == [id : Ids, ip : Ips]

ASSUME PairingAssumption ==
  /\ Homes \subseteq [Devices -> CacheKeys]
  /\ MaxAttempts \in Nat

Attempts == 1 .. MaxAttempts
None == 0

VARIABLES
  home,         (* the uniqueid and address of each device                  *)
  cache,        (* pairing_cache_, by uniqueid and address                  *)
  pending,      (* g_pending_pins, by attempt                               *)
  promise,      (* the PIN in each attempt's promise                        *)
  waiter,       (* the thread of each attempt: none, waiting, expired,      *)
                (* cached (has stored its handshake), done                  *)
  http,         (* the HTTP thread: the request it handles, with its copy   *)
                (* of the cache entry                                       *)
  wire,         (* requests under way                                       *)
  prog,         (* each client's attempt: 2k-1 request k sent, 2k answered  *)
  seen,         (* the challenge a client has decrypted                     *)
  dev,          (* the device of each attempt                               *)
  paired,       (* paired_clients_                                          *)
  entered,      (* history: attempt on whose page a PIN was entered, PIN    *)
  dropped       (* history: attempts with a request that got no answer      *)

threads == <<waiter, http>>
clients == <<wire, prog, seen, dev, home>>
vars == <<cache, pending, promise, threads, clients, paired, entered, dropped>>

MaybeAttempts == Attempts \cup {None}

(* PairCache: the attempt whose key (with the PIN entered) and client_cert *)
(* it has, last_phase, the server's secret and challenge, and client_hash  *)
(* (noise has no challenge).                                               *)
LastPhases == 0 .. 3
Hashes == [att : MaybeAttempts, chal : MaybeAttempts]
PairCaches ==
  [att : MaybeAttempts, pin : MaybeAttempts, phase : LastPhases, chal : MaybeAttempts,
   hash : Hashes]
NoHash == [att |-> None, chal |-> None]
NoCache == [att |-> None, pin |-> None, phase |-> 0, chal |-> None, hash |-> NoHash]

Requests == [att : MaybeAttempts, phase : 0 .. 4, chal : MaybeAttempts]
Idle == [req |-> [att |-> None, phase |-> 0, chal |-> None],
         copy |-> NoCache, adding |-> FALSE]

Failed == 9
Begun == {a \in Attempts : prog[a] # 0}

TypeOK ==
  /\ home \in [Devices -> CacheKeys]
  /\ cache \in [CacheKeys -> PairCaches]
  /\ pending \subseteq Attempts
  /\ promise \in [Attempts -> MaybeAttempts]
  /\ waiter \in [Attempts -> {"none", "waiting", "expired", "cached", "done"}]
  /\ http \in [req : Requests, copy : PairCaches, adding : BOOLEAN]
  /\ wire \subseteq Requests
  /\ prog \in [Attempts -> 0 .. 9]
  /\ seen \in [Attempts -> MaybeAttempts]
  /\ dev \in [Attempts -> Devices]
  /\ paired \subseteq Devices
  /\ entered \subseteq Attempts \X Attempts
  /\ dropped \subseteq Attempts

Init ==
  /\ home \in Homes
  /\ cache = [k \in CacheKeys |-> NoCache]
  /\ pending = {}
  /\ promise = [a \in Attempts |-> None]
  /\ waiter = [a \in Attempts |-> "none"]
  /\ http = Idle
  /\ wire = {}
  /\ prog = [a \in Attempts |-> 0]
  /\ seen = [a \in Attempts |-> None]
  /\ dev \in [Attempts -> Devices]
  /\ paired = {}
  /\ entered = {}
  /\ dropped = {}

-----------------------------------------------------------------------------
(***************************************************************************)
(* The clients.  An attempt ends when its device begins another.           *)
(***************************************************************************)
CacheKey(a) == home[dev[a]]
IpOf(a) == home[dev[a]].ip

Newest(a) == \A b \in Begun : dev[b] = dev[a] => b <= a

Request(a, k) == [att |-> a, phase |-> k, chal |-> seen[a]]

Begin(a) ==
  /\ prog[a] = 0 /\ \A b \in Attempts : b < a => prog[b] # 0
  /\ prog' = [prog EXCEPT ![a] = 1]
  /\ wire' = wire \cup {Request(a, 1)}
  /\ UNCHANGED <<cache, pending, promise, threads, seen, dev, home, paired, entered, dropped>>

Continue(a, k) ==
  /\ prog[a] = 2 * k /\ k \in 1 .. 3
  /\ Newest(a)
  /\ prog' = [prog EXCEPT ![a] = 2 * k + 1]
  /\ wire' = wire \cup {Request(a, k + 1)}
  /\ UNCHANGED <<cache, pending, promise, threads, seen, dev, home, paired, entered, dropped>>

Answer(a, k) == prog' = [prog EXCEPT ![a] = 2 * k]
Refuse(a) == prog' = [prog EXCEPT ![a] = Failed]

(* The user enters the PIN of attempt p on the page of attempt a.  POST    *)
(* /pin runs on the HTTP thread too.                                       *)
EnterPin(a, p) ==
  /\ http = Idle
  /\ a \in pending /\ p \in Begun
  /\ promise' = [promise EXCEPT ![a] = p]
  /\ pending' = pending \ {a}
  /\ entered' = entered \cup {<<a, p>>}
  /\ UNCHANGED <<cache, threads, clients, paired, dropped>>

-----------------------------------------------------------------------------
(***************************************************************************)
(* Phase 1, and the thread that waits for the PIN.                         *)
(***************************************************************************)
Forget(a) == cache' = [cache EXCEPT ![CacheKey(a)] = NoCache]

(* Faulty variant: earlier pages of the address stay.                      *)
SupersedeNone(a) == pending \cup {a}

(* Only the newest page of an address can be used.                         *)
Supersede(a) == {b \in pending : IpOf(b) # IpOf(a)} \cup {a}

Phase1(m) ==
  /\ http = Idle
  /\ m \in wire /\ m.phase = 1
  /\ wire' = wire \ {m}
  /\ IF cache[CacheKey(m.att)] # NoCache
       THEN /\ Refuse(m.att)
            /\ Forget(m.att)
            /\ UNCHANGED <<pending, waiter>>
       ELSE /\ pending' = Supersede(m.att)
            /\ waiter' = [waiter EXCEPT ![m.att] = "waiting"]
            /\ UNCHANGED <<prog, cache>>
  /\ UNCHANGED <<promise, http, seen, dev, home, paired, entered, dropped>>

(* Faulty variant: the wait ends only with a PIN.                          *)
ExpireNever(a) == FALSE /\ UNCHANGED vars

(* wait_for returns after 180 s, before the thread takes g_pin_mtx.        *)
Expire(a) ==
  /\ waiter[a] = "waiting" /\ promise[a] = None
  /\ waiter' = [waiter EXCEPT ![a] = "expired"]
  /\ UNCHANGED <<cache, pending, promise, http, clients, paired, entered, dropped>>

TimedOut(a) ==
  /\ waiter[a] = "expired"
  /\ pending' = pending \ {a}
  /\ Refuse(a)
  /\ waiter' = [waiter EXCEPT ![a] = "done"]
  /\ UNCHANGED <<cache, promise, http, wire, seen, dev, home, paired, entered, dropped>>

StoreHandshake(a) ==
  /\ waiter[a] = "waiting" /\ promise[a] # None
  /\ cache' = [cache EXCEPT ![CacheKey(a)] =
       [att |-> a, pin |-> promise[a], phase |-> 1, chal |-> None, hash |-> NoHash]]
  /\ waiter' = [waiter EXCEPT ![a] = "cached"]
  /\ UNCHANGED <<pending, promise, http, clients, paired, entered, dropped>>

SendServerCert(a) ==
  /\ waiter[a] = "cached"
  /\ Answer(a, 1)
  /\ waiter' = [waiter EXCEPT ![a] = "done"]
  /\ UNCHANGED <<cache, pending, promise, http, wire, seen, dev, home, paired, entered, dropped>>

-----------------------------------------------------------------------------
(***************************************************************************)
(* Phases 2 to 4.  A handler works on a copy of the cache entry and stores *)
(* the copy; a thread of phase 1 may store its own in between.             *)
(***************************************************************************)
Lookup(m) ==
  /\ http = Idle
  /\ m \in wire /\ m.phase # 1
  /\ wire' = wire \ {m}
  /\ IF cache[CacheKey(m.att)] = NoCache
       THEN Refuse(m.att) /\ UNCHANGED http
       ELSE /\ http' = [req |-> m, copy |-> cache[CacheKey(m.att)], adding |-> FALSE]
            /\ UNCHANGED prog
  /\ UNCHANGED <<cache, pending, promise, waiter, seen, dev, home, paired, entered, dropped>>

Handling(k) == http.req.phase = k /\ ~http.adding
Att == http.req.att
Store(entry) == cache' = [cache EXCEPT ![CacheKey(Att)] = entry]

OutOfOrder ==
  /\ Refuse(Att)
  /\ Forget(Att)
  /\ UNCHANGED seen

(* The server's key is the one this client has derived.                    *)
KeyIsRight == http.copy.att = Att /\ http.copy.pin = Att

Phase2 ==
  /\ Handling(2)
  /\ IF http.copy.phase # 1
       THEN OutOfOrder
       ELSE /\ Store([http.copy EXCEPT !.phase = 2, !.chal = Att])
            /\ Answer(Att, 2)
            /\ seen' = [seen EXCEPT ![Att] = IF KeyIsRight THEN Att ELSE None]
  /\ http' = Idle
  /\ UNCHANGED <<pending, promise, waiter, wire, dev, home, paired, entered, dropped>>

(* get_client_hash: with another key, what is decrypted is noise.          *)
ClientHash == [att |-> Att, chal |-> IF KeyIsRight THEN http.req.chal ELSE None]

Phase3 ==
  /\ Handling(3) /\ http.copy.chal # None
  /\ IF http.copy.phase # 2
       THEN OutOfOrder
       ELSE /\ Store([http.copy EXCEPT !.phase = 3, !.hash = ClientHash])
            /\ Answer(Att, 3)
            /\ UNCHANGED seen
  /\ http' = Idle
  /\ UNCHANGED <<pending, promise, waiter, wire, dev, home, paired, entered, dropped>>

(* The secret is signed by the owner of the certificate in the cache.      *)
SignedByCert == dev[Att] = dev[http.copy.att]

(* Faulty variant: the hash is not compared.                               *)
ClientPairAnyHash == SignedByCert

(* client_pair: the hash was made from this challenge, the certificate in  *)
(* the cache and the secret that the client reveals now.                   *)
ClientPair ==
  http.copy.hash = [att |-> Att, chal |-> http.copy.chal] /\ SignedByCert

Phase4Matches == Handling(4) /\ http.copy.chal # None /\ http.copy.hash # NoHash

(* The answer is sent before the client is added.                          *)
Phase4 ==
  /\ Phase4Matches
  /\ \/ /\ http.copy.phase # 3 \/ ~ClientPair
        /\ OutOfOrder
        /\ http' = Idle
     \/ /\ http.copy.phase = 3 /\ ClientPair
        /\ Answer(Att, 4)
        /\ http' = [http EXCEPT !.adding = TRUE]
        /\ UNCHANGED <<cache, seen>>
  /\ UNCHANGED <<pending, promise, waiter, wire, dev, home, paired, entered, dropped>>

(* It is the certificate of the cache entry that is added.                 *)
AddClient ==
  /\ http.adding
  /\ paired' = paired \cup {dev[http.copy.att]}
  /\ Forget(Att)
  /\ http' = Idle
  /\ UNCHANGED <<pending, promise, waiter, clients, entered, dropped>>

(* "Unable to match pair with any phase": nothing is sent.                 *)
NoPhase ==
  /\ \/ Handling(3) /\ http.copy.chal = None
     \/ Handling(4) /\ (http.copy.chal = None \/ http.copy.hash = NoHash)
  /\ dropped' = dropped \cup {Att}
  /\ http' = Idle
  /\ UNCHANGED <<cache, pending, promise, waiter, clients, paired, entered>>

(* /unpair removes the certificate in the cache entry, whosever it is, and *)
(* nothing unless a handshake is under way.                                *)
Unpair(d) ==
  /\ http = Idle
  /\ cache[home[d]] # NoCache
  /\ paired' = paired \ {dev[cache[home[d]].att]}
  /\ UNCHANGED <<cache, pending, promise, threads, clients, entered, dropped>>

Handle ==
  \/ \E m \in wire : Phase1(m) \/ Lookup(m)
  \/ Phase2 \/ Phase3 \/ Phase4 \/ AddClient \/ NoPhase

Waiter(a) == Expire(a) \/ TimedOut(a) \/ StoreHandshake(a) \/ SendServerCert(a)

Next ==
  \/ \E a \in Attempts : Begin(a) \/ \E k \in 1 .. 3 : Continue(a, k)
  \/ \E a, p \in Attempts : EnterPin(a, p)
  \/ Handle
  \/ \E a \in Attempts : Waiter(a)
  \/ \E d \in Devices : Unpair(d)

Spec == Init /\ [][Next]_vars

(* Threads run, and every wait has its 180 s.                              *)
FairSpec == Spec /\ WF_vars(Handle) /\ \A a \in Attempts : WF_vars(Waiter(a))
-----------------------------------------------------------------------------
(***************************************************************************)
(* Properties.                                                             *)
(***************************************************************************)

(* Safety.  A client is paired only through an attempt whose own PIN the   *)
(* user entered on its own page, and which told it so in the end, whatever *)
(* attempts, late requests and PIN threads overlap, and although a device  *)
(* that shares the cache entry may replace what is in it at any point.     *)
PairedByItsPin ==
  \A d \in paired : \E a \in Begun :
    /\ dev[a] = d
    /\ <<a, a>> \in entered
    /\ prog[a] = 8

(* Safety.  Types, and: a page that takes a PIN has a thread behind it,    *)
(* and an address has at most one such page.                               *)
PagesAreLive ==
  \A a \in pending :
    /\ waiter[a] \in {"waiting", "expired"}
    /\ promise[a] = None
    /\ \A b \in pending : IpOf(a) = IpOf(b) => a = b

PagesInv == TypeOK /\ PagesAreLive

(* A request of attempt a is under way, or was left without an answer; the *)
(* latter counts only if no other attempt shares its cache entry.          *)
Unanswered(a) ==
  /\ prog[a] \in {1, 3, 5, 7}
  /\ a \in dropped => \A b \in Begun \ {a} : CacheKey(b) # CacheKey(a)

(* Liveness.  Every request is answered, that for the PIN at the latest    *)
(* when its wait expires; only attempts that run through one cache entry,  *)
(* of the same device or of two that share it, may leave one another       *)
(* without an answer.  (Attempts are finitely many, so all is answered in  *)
(* the end.)                                                               *)
RequestsAreAnswered == <>[](\A a \in Attempts : ~Unanswered(a))

(***************************************************************************)
(* A statement of the repository that the code does not keep; no run       *)
(* checks it, README says what breaks it.                                  *)
(***************************************************************************)

(* A cache entry is the "In-flight state for a single client's multi-step  *)
(* PIN handshake" (state.hpp).                                             *)
EntryOfOneClient ==
  \A k \in CacheKeys :
    cache[k].hash.att # None => dev[cache[k].hash.att] = dev[cache[k].att]
=============================================================================
