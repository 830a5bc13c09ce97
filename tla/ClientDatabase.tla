---------------------------- MODULE ClientDatabase ----------------------------
(***************************************************************************)
(* InMemoryClientDatabase (database.py).  A row is a Client object; the    *)
(* lock protects the dict and the id counter and nothing else, so that the *)
(* callers of the read API hold references to the very objects that later  *)
(* writes update ("Treat returned Client objects as read-mostly").         *)
(*                                                                         *)
(* objects is every Client object ever built and a reference is its index; *)
(* 0 is None.                                                              *)
(***************************************************************************)
EXTENDS Integers, Sequences, FiniteSets

CONSTANTS
  Keys,         \* api keys
  Types,        \* message types of a whitelist
  Holders,      \* callers that keep a Client: connections, policies
  MaxClients    \* bound: Client objects built

ASSUME ConstantsAssumption == MaxClients \in Nat

VARIABLES
  clients,    \* clients[k]: _clients, the row of key k, or 0
  objects,    \* the Client objects
  nextId,     \* _next_id
  held,       \* held[h]: the Client that h got from the read API, or 0
  revoked,    \* keys delete_client removed at some time (history)
  asked       \* asked[k]: the last whitelist k was registered with (history)

vars == <<clients, objects, nextId, held, revoked, asked>>

Clients == [key : Keys, id : Nat, allowed : SUBSET Types]

\* The allowed_types argument: {} is None, {a} the whitelist a, empty or not.
Arguments == {{}} \cup {{a} : a \in SUBSET Types}

Refs == 0..Len(objects)

Registered(k) == clients[k] # 0

TypeOK ==
  /\ objects \in Seq(Clients)
  /\ clients \in [Keys -> Refs]
  /\ nextId \in Nat
  /\ held \in [Holders -> Refs]
  /\ revoked \in SUBSET Keys
  /\ asked \in [Keys -> SUBSET Types]

Init ==
  /\ clients = [k \in Keys |-> 0]
  /\ objects = <<>>
  /\ nextId = 0
  /\ held = [h \in Holders |-> 0]
  /\ revoked = {}
  /\ asked = [k \in Keys |-> {}]

-----------------------------------------------------------------------------
RowsWith(id) == {k \in Keys : Registered(k) /\ objects[clients[k]].id = id}

\* get_client_by_id and refresh: the first row with that id.
GetById(id) == IF RowsWith(id) = {} THEN 0 ELSE clients[CHOOSE k \in RowsWith(id) : TRUE]

\* Faulty variant: the argument is stored as it came, None included.
BuildStoresArgument(k, id, arg) ==
  /\ Len(objects) < MaxClients
  /\ objects' = Append(objects, [key |-> k, id |-> id, allowed |-> arg])
  /\ clients' = [clients EXCEPT ![k] = Len(objects) + 1]
  /\ asked' = [asked EXCEPT ![k] = UNION arg]

Build(k, id, arg) ==
  /\ Len(objects) < MaxClients
  /\ objects' = Append(objects, [key |-> k, id |-> id, allowed |-> UNION arg])
  /\ clients' = [clients EXCEPT ![k] = Len(objects) + 1]
  /\ asked' = [asked EXCEPT ![k] = UNION arg]

\* Faulty variant: the id is derived from the number of rows.
InsertReusesId(k, arg) ==
  LET rows == Cardinality({l \in Keys : Registered(l)})
  IN  ~Registered(k) /\ Build(k, rows + 1, arg) /\ nextId' = rows + 1

Insert(k, arg) ==
  /\ ~Registered(k)
  /\ Build(k, nextId + 1, arg)
  /\ nextId' = nextId + 1

\* Faulty variant: an update replaces the row by a new object.
UpdateForks(k, arg) ==
  /\ Registered(k)
  /\ Build(k, objects[clients[k]].id, arg)
  /\ UNCHANGED nextId

\* The row that holds the key is updated in place; None keeps what is stored.
Update(k, arg) ==
  /\ Registered(k)
  /\ asked' = [asked EXCEPT ![k] = IF arg = {} THEN @ ELSE UNION arg]
  /\ objects' = [objects EXCEPT ![clients[k]].allowed =
                    IF arg = {} THEN @ ELSE UNION arg]
  /\ UNCHANGED <<clients, nextId>>

AddClient(k, arg) ==
  /\ Insert(k, arg) \/ Update(k, arg)
  /\ UNCHANGED <<held, revoked>>

DeleteClient(k) ==
  /\ Registered(k)
  /\ clients' = [clients EXCEPT ![k] = 0]
  /\ revoked' = revoked \cup {k}
  /\ UNCHANGED <<objects, nextId, held, asked>>

\* get_client_by_api_key: what is returned is the stored object.
GetByKey(h, k) ==
  /\ held' = [held EXCEPT ![h] = clients[k]]
  /\ UNCHANGED <<clients, objects, nextId, revoked, asked>>

\* refresh(client_id) of a client read earlier.
Refresh(h) ==
  /\ held[h] # 0
  /\ held' = [held EXCEPT ![h] = GetById(objects[held[h]].id)]
  /\ UNCHANGED <<clients, objects, nextId, revoked, asked>>

\* update_item: the caller's Client becomes the row of its api_key, whatever
\* that row is by now.  What callers change in a Client first (the pinned key,
\* last_seen, a blank password) is not in this model.
UpdateItem(h) ==
  /\ held[h] # 0
  /\ clients' = [clients EXCEPT ![objects[held[h]].key] = held[h]]
  /\ UNCHANGED <<objects, nextId, held, revoked, asked>>

Next ==
  \/ \E k \in Keys, arg \in Arguments : AddClient(k, arg)
  \/ \E k \in Keys : DeleteClient(k)
  \/ \E h \in Holders, k \in Keys : GetByKey(h, k)
  \/ \E h \in Holders : Refresh(h) \/ UpdateItem(h)

Spec == Init /\ [][Next]_vars

-----------------------------------------------------------------------------
\* A client_id names one client for good: refresh gives a caller the client it
\* had or None, never another's row ("the TTL cache refresh on the admission
\* hot path then resolves the wrong client"), with rows deleted and added, and
\* stale clients written back, in between.
RefreshKeepsClient ==
  \A h \in Holders :
    held[h] # 0 => GetById(objects[held[h]].id) \in {0, held[h]}

\* Every registered key is found under its own id as well.
LookupsAgree ==
  \A k \in Keys : Registered(k) =>
    objects[clients[k]].key = k /\ GetById(objects[clients[k]].id) = clients[k]

\* Unless a key was revoked meanwhile, a caller that kept the Client of a key
\* still holds the stored row: a registration never leaves an open connection
\* with an outdated copy, and no write-back undoes a registration.
NoForkedClient ==
  \A h \in Holders :
    held[h] # 0 /\ objects[held[h]].key \notin revoked
      => clients[objects[held[h]].key] = held[h]

\* A key that was never revoked has the rights of the last registration that
\* named any ("passing [] really does revoke a previous whitelist"), whatever
\* clients were written back since.
RightsAreTheLatest ==
  \A k \in Keys : Registered(k) /\ k \notin revoked => objects[clients[k]].allowed = asked[k]

=============================================================================
