---------------------------- MODULE ResourceCache ----------------------------
(***************************************************************************)
(* Images for renderers: the engine's ResourceManager (registrations, byte *)
(* bounded cache, fetch states), the detached fetch tasks that fill it and *)
(* the desktop client that assembles a resource chunk by chunk while the   *)
(* entry may expire, be evicted and be fetched again.                      *)
(*                                                                         *)
(* Abstractions.  last_used counters are kept as recency order, oldest     *)
(* first.  A body is a version of a resource; its size stands for the      *)
(* length and MIME type that the client compares.  Expiry may happen at    *)
(* any time; RPC loss and timeouts end a transfer like its deadline does.  *)
(***************************************************************************)
EXTENDS FiniteLists, FiniteSets

CONSTANTS Ids,        \* resource ids
          Transfers,  \* the ids the client asks for
          Bodies,     \* versions of resources the provider may return
          Size,       \* their sizes, in chunks
          MaxRegs,    \* max_registrations
          MaxBytes,   \* max_bytes of the cache
          ClientMax,  \* MAX_RESOURCE_BYTES of the client
          Nothing

ASSUME ResourceAssumption ==
    /\ Transfers \subseteq Ids
    /\ Size \in [Bodies -> Nat]
    /\ MaxRegs \in Nat /\ MaxBytes \in Nat /\ ClientMax \in Nat
    /\ Nothing \notin Bodies \cup Nat

VARIABLES
    regs,        \* registered ids by recency
    cache,       \* per id: the cached body
    used,        \* cached ids by recency
    expired,     \* cached ids past their expires_at
    cacheBytes,
    fetches,     \* per id: the fetch state ("lapsed": failed and expired)
    task,        \* per id: its fetch task
    client       \* per transfer: the ResourceAssembler and its loop

resourceVars == <<regs, cache, used, expired, cacheBytes, fetches, task, client>>

\* A recency order without some ids, and with id made the most recent.
Without(seq, S) == Only(seq, Ids \ S)
Touch(seq, id) == Append(Without(seq, {id}), id)

SizeOf(id) == IF cache[id] = Nothing THEN 0 ELSE Size[cache[id]]
Bytes(seq) == Total([i \in Ids |-> SizeOf(i)], seq)
SatSub(m, n) == IF n >= m THEN 0 ELSE m - n

Fresh == [total |-> Nothing, got |-> << >>, state |-> "asking"]

ResourceInit ==
    /\ regs = << >> /\ used = << >>
    /\ cache = [i \in Ids |-> Nothing]
    /\ expired = {} /\ cacheBytes = 0
    /\ fetches = [i \in Ids |-> "none"]
    /\ task = [i \in Ids |-> "none"]
    /\ client = [i \in Transfers |-> [Fresh EXCEPT !.state = "idle"]]
-----------------------------------------------------------------------------
(* The manager; each operation holds its mutex.                            *)

\* remove_cache_entry, for each of S.  Defect considered: the bytes stay counted.
Removed_BytesKept(S) ==
    /\ cache' = [i \in Ids |-> IF i \in S THEN Nothing ELSE cache[i]]
    /\ used' = Without(used, S)
    /\ expired' = expired \ S
    /\ UNCHANGED cacheBytes
Removed(S) ==
    /\ cache' = [i \in Ids |-> IF i \in S THEN Nothing ELSE cache[i]]
    /\ used' = Without(used, S)
    /\ expired' = expired \ S
    /\ cacheBytes' = SatSub(cacheBytes, Bytes(Only(used, S)))

\* The registrations that may be evicted.
Evictable == Only(regs, {i \in Ids : fetches[i] # "pending"})

\* The registrations are at their limit.
RegsFull == Len(regs) >= MaxRegs

\* An evicted registration takes its fetch state and cache entry with it.
Forget(id) == fetches' = [fetches EXCEPT ![id] = "none"] /\ Removed({id})

\* register, for a URL in a snapshot that is served.
Register(id) ==
    /\ MaxRegs > 0
    /\ \/ /\ id \in ToSet(regs)
          /\ regs' = Touch(regs, id)
          /\ UNCHANGED <<cache, used, expired, cacheBytes, fetches>>
       \/ /\ id \notin ToSet(regs)
          /\ ~RegsFull
          /\ regs' = Append(regs, id)
          /\ UNCHANGED <<cache, used, expired, cacheBytes, fetches>>
       \/ /\ id \notin ToSet(regs)
          /\ RegsFull
          /\ Evictable # << >>
          /\ LET oldest == Head(Evictable)
             IN  /\ regs' = Append(Without(regs, {oldest}), id)
                 /\ Forget(oldest)
    /\ UNCHANGED <<task, client>>

Expire(id) ==
    /\ cache[id] # Nothing
    /\ id \notin expired
    /\ expired' = expired \cup {id}
    /\ UNCHANGED <<regs, cache, used, cacheBytes, fetches, task, client>>

FailureLapses(id) ==
    /\ fetches[id] = "failed"
    /\ fetches' = [fetches EXCEPT ![id] = "lapsed"]
    /\ UNCHANGED <<regs, cache, used, expired, cacheBytes, task, client>>
-----------------------------------------------------------------------------
(* The fetch task of spawn_resource_fetch.                                 *)

\* cache: expired entries and the old one go, then the oldest until it fits.
Victims(id) == expired \cup {id}
Evicted(id, n) ==
    LET seq  == Without(used, Victims(id))
        left == SatSub(cacheBytes, Bytes(Only(used, Victims(id))))
        fits == {k \in 0..Len(seq) : \/ k = Len(seq)
                                     \/ SatSub(left, Bytes(SubSeq(seq, 1, k))) + n <= MaxBytes}
        k    == CHOOSE x \in fits : \A y \in fits : x <= y
    IN  Victims(id) \cup ToSet(SubSeq(seq, 1, k))

\* The size check of cache.
Fits(b) == Size[b] <= MaxBytes

\* The provider answers: cache the body.
FetchReturns(id, b) ==
    /\ task[id] = "fetching"
    /\ \/ /\ Fits(b)
          /\ id \in ToSet(regs)
          /\ LET out == Evicted(id, Size[b])
             IN  /\ cache' = [i \in Ids |-> IF i = id THEN b
                                            ELSE IF i \in out THEN Nothing ELSE cache[i]]
                 /\ used' = Append(Without(used, out), id)
                 /\ expired' = expired \ out
                 /\ cacheBytes' = SatSub(cacheBytes, Bytes(Only(used, out))) + Size[b]
          /\ task' = [task EXCEPT ![id] = "stored"]
       \/ /\ ~Fits(b) \/ id \notin ToSet(regs)
          /\ task' = [task EXCEPT ![id] = "failed"]
          /\ UNCHANGED <<cache, used, expired, cacheBytes>>
    /\ UNCHANGED <<regs, fetches, client>>

FetchFails(id) ==
    /\ task[id] = "fetching"
    /\ task' = [task EXCEPT ![id] = "failed"]
    /\ UNCHANGED <<regs, cache, used, expired, cacheBytes, fetches, client>>

\* The fetch state after finish_fetch.
Finished(id) == IF task[id] = "failed" /\ id \in ToSet(regs) THEN "failed" ELSE "none"

FinishFetch(id) ==
    /\ task[id] \in {"stored", "failed"}
    /\ fetches' = [fetches EXCEPT ![id] = Finished(id)]
    /\ task' = [task EXCEPT ![id] = "none"]
    /\ UNCHANGED <<regs, cache, used, expired, cacheBytes, client>>

\* A panic in the provider ends the detached task; nobody calls finish_fetch.
FetchPanics(id) ==
    /\ task[id] = "fetching"
    /\ task' = [task EXCEPT ![id] = "panicked"]
    /\ UNCHANGED <<regs, cache, used, expired, cacheBytes, fetches, client>>
-----------------------------------------------------------------------------
(* The client: get_resource_bytes and ResourceAssembler.                   *)

StartTransfer(id) ==
    /\ client[id].state # "asking"
    /\ client' = [client EXCEPT ![id] = Fresh]
    /\ UNCHANGED <<regs, cache, used, expired, cacheBytes, fetches, task>>

Fail(id) == client' = [client EXCEPT ![id].state = "failed"]

\* What the assembler accepts of a ready response.  Defect considered: it does
\* not compare the total with that of the earlier chunks.
Accepts_AnyTotal(c, b) == Size[b] <= ClientMax
Accepts(c, b) == Size[b] <= ClientMax /\ c.total \in {Nothing, Size[b]}

\* resource_chunk and push: the next chunk of body b.
Pushed(c, b) ==
    LET offset == Len(c.got)
        got    == IF offset < Size[b] THEN Append(c.got, b) ELSE c.got
    IN  [total |-> Size[b], got |-> got,
         state |-> IF Len(got) = Size[b] THEN "done" ELSE "asking"]

Touched(id) == regs' = Touch(regs, id)

\* One GET_RESOURCE round trip, by the plan of begin_fetch.
AskMissing(id) ==
    /\ client[id].state = "asking"
    /\ id \notin ToSet(regs)
    /\ Fail(id)
    /\ UNCHANGED <<regs, cache, used, expired, cacheBytes, fetches, task>>

AskReady(id) ==
    /\ client[id].state = "asking"
    /\ id \in ToSet(regs)
    /\ cache[id] # Nothing
    /\ id \notin expired
    /\ Touched(id)
    /\ used' = Touch(used, id)
    /\ LET b == cache[id]
       IN  \/ /\ Len(client[id].got) <= Size[b]
              /\ Accepts(client[id], b)
              /\ client' = [client EXCEPT ![id] = Pushed(client[id], b)]
           \/ /\ Len(client[id].got) > Size[b] \/ ~Accepts(client[id], b)
              /\ Fail(id)
    /\ UNCHANGED <<cache, expired, cacheBytes, fetches, task>>

AskOther(id) ==
    /\ client[id].state = "asking"
    /\ id \in ToSet(regs)
    /\ cache[id] = Nothing \/ id \in expired
    /\ Touched(id)
    /\ Removed({id})
    /\ \/ /\ fetches[id] = "pending"
          /\ UNCHANGED <<fetches, task, client>>
       \/ /\ fetches[id] = "failed"
          /\ Fail(id)
          /\ UNCHANGED <<fetches, task>>
       \/ /\ fetches[id] \in {"none", "lapsed"}
          /\ fetches' = [fetches EXCEPT ![id] = "pending"]
          /\ task' = [task EXCEPT ![id] = "fetching"]
          /\ UNCHANGED client

\* The transfer deadline passed, or a request failed.
TransferFails(id) ==
    /\ client[id].state = "asking"
    /\ Fail(id)
    /\ UNCHANGED <<regs, cache, used, expired, cacheBytes, fetches, task>>
-----------------------------------------------------------------------------
TaskStep(id) == (\E b \in Bodies : FetchReturns(id, b)) \/ FetchFails(id) \/ FinishFetch(id)

ResourceNext ==
    \/ \E id \in Ids : \/ Register(id) \/ Expire(id) \/ FailureLapses(id)
                       \/ TaskStep(id) \/ FetchPanics(id)
    \/ \E id \in Transfers : \/ StartTransfer(id) \/ AskMissing(id) \/ AskReady(id)
                             \/ AskOther(id) \/ TransferFails(id)

ResourceSpec == ResourceInit /\ [][ResourceNext]_resourceVars
-----------------------------------------------------------------------------
\* Types; the recency orders list each registered and each cached id once.
ResourceTypeOK ==
    /\ regs \in Seq(Ids) /\ IsInjective(regs) /\ Len(regs) <= MaxRegs
    /\ cache \in [Ids -> Bodies \cup {Nothing}]
    /\ used \in Seq(Ids) /\ IsInjective(used)
    /\ ToSet(used) = {i \in Ids : cache[i] # Nothing}
    /\ expired \subseteq ToSet(used)
    /\ cacheBytes \in Nat
    /\ fetches \in [Ids -> {"none", "pending", "failed", "lapsed"}]
    /\ task \in [Ids -> {"none", "fetching", "stored", "failed", "panicked"}]
    /\ client \in [Transfers -> [total : Nat \cup {Nothing}, got : Seq(Bodies),
                                 state : {"idle", "asking", "done", "failed"}]]

\* The byte count is what the cache holds, and never above the limit.
BytesBounded ==
    /\ cacheBytes = Bytes(used)
    /\ cacheBytes <= MaxBytes

\* Nothing is kept for an id that was evicted from the registrations.
OnlyRegistered ==
    \A i \in Ids : (cache[i] # Nothing \/ fetches[i] # "none") => i \in ToSet(regs)

\* A resource is pending exactly while one task fetches it (or has panicked, which
\* leaves it pending): no fetch is started twice, no pending mark outlives its task.
PendingHasTask == \A i \in Ids : fetches[i] = "pending" <=> task[i] # "none"

\* What the manager keeps through every order of registration, eviction, expiry and
\* fetch results: a byte count that is the cache's, within its limit, nothing kept
\* for an evicted id, and one fetch task behind every pending mark.
CacheConsistent == ResourceTypeOK /\ BytesBounded /\ OnlyRegistered /\ PendingHasTask

\* A completed transfer has the declared length, and every chunk comes from a body
\* of that length, however often the entry was evicted and fetched in between.
TransferConsistent ==
    \A i \in Transfers : client[i].state = "done" =>
        \A k \in DOMAIN client[i].got : Size[client[i].got[k]] = Len(client[i].got)

\* Why TransferConsistent holds: every chunk held is of a body as long as the
\* total, which is set with the first answer, and a transfer is done at the total.
TransferInv ==
    /\ DOMAIN cache = Ids /\ \A i \in Ids : cache[i] # Nothing => cache[i] \in Bodies
    /\ DOMAIN client = Transfers
    /\ \A i \in Transfers :
          /\ DOMAIN client[i] = {"total", "got", "state"} /\ client[i].got \in Seq(Bodies)
          /\ client[i].total = Nothing => client[i].got = << >>
          /\ \A k \in 1..Len(client[i].got) : Size[client[i].got[k]] = client[i].total
          /\ client[i].state = "done" => client[i].total = Len(client[i].got)
=============================================================================
