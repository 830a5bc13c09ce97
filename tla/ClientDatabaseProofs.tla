------------------------ MODULE ClientDatabaseProofs ------------------------
(***************************************************************************)
(* Proofs about ClientDatabase for any keys, holders and bound.            *)
(***************************************************************************)
EXTENDS ClientDatabase, TLAPS

\* Ids are handed out in the order in which the objects are built, and a row
\* is an object of its own key.
IdInv ==
  /\ nextId = Len(objects)
  /\ \A n \in 1..Len(objects) : objects[n].id = n
  /\ \A k \in Keys : Registered(k) => objects[clients[k]].key = k

Inv == TypeOK /\ IdInv

LEMMA RefType ==
  ASSUME TypeOK
  PROVE  /\ \A k \in Keys : clients[k] \in 0..Len(objects)
         /\ \A h \in Holders : held[h] \in 0..Len(objects)
         /\ \A n \in 1..Len(objects) : objects[n] \in Clients
         /\ Len(objects) \in Nat
  BY DEF TypeOK, Refs

\* The id of an object finds the row that is this very object, or no row.
LEMMA IdFindsObject ==
  ASSUME Inv, NEW n \in 1..Len(objects)
  PROVE  /\ GetById(objects[n].id) \in {0, n}
         /\ \A k \in Keys : clients[k] = n => GetById(objects[n].id) = n
  <1>1. \A k \in RowsWith(objects[n].id) : clients[k] = n
    BY RefType DEF Inv, IdInv, RowsWith, Registered
  <1>2. \A k \in Keys : clients[k] = n => k \in RowsWith(objects[n].id)
    BY DEF RowsWith, Registered
  <1>3. QED
    BY <1>1, <1>2 DEF GetById

LEMMA InvInit == Init => Inv
  BY DEF Init, Inv, TypeOK, IdInv, Refs, Registered

LEMMA BuildStep ==
  ASSUME Inv, NEW k \in Keys, NEW arg \in Arguments, Insert(k, arg),
         UNCHANGED <<held, revoked>>
  PROVE  Inv'
  <1> DEFINE new == [key |-> k, id |-> nextId + 1, allowed |-> UNION arg]
  <1>1. /\ objects' = Append(objects, new)
        /\ clients' = [clients EXCEPT ![k] = Len(objects) + 1]
        /\ asked' = [asked EXCEPT ![k] = UNION arg]
        /\ nextId' = nextId + 1
    BY DEF Insert, Build
  <1>2. UNION arg \in SUBSET Types
    BY DEF Arguments
  <1>3. new \in Clients /\ new.key = k /\ new.id = nextId + 1
    BY <1>2 DEF Clients, Inv, TypeOK
  <1> HIDE DEF new
  <1>4. /\ Len(objects') = Len(objects) + 1
        /\ objects' \in Seq(Clients)
        /\ \A n \in 1..Len(objects) : objects'[n] = objects[n]
        /\ objects'[Len(objects) + 1] = new
    BY <1>1, <1>3 DEF Inv, TypeOK
  <1>5. TypeOK'
    BY <1>1, <1>2, <1>4 DEF Inv, TypeOK, Refs
  <1>6. IdInv'
    BY <1>1, <1>3, <1>4, RefType DEF Inv, TypeOK, IdInv, Registered
  <1>7. QED
    BY <1>5, <1>6 DEF Inv

LEMMA UpdateStep ==
  ASSUME Inv, NEW k \in Keys, NEW arg \in Arguments, Update(k, arg),
         UNCHANGED <<held, revoked>>
  PROVE  Inv'
  <1> DEFINE allowed == IF arg = {} THEN objects[clients[k]].allowed ELSE UNION arg
  <1>1. clients[k] \in 1..Len(objects) /\ objects[clients[k]] \in Clients
    BY RefType DEF Update, Registered, Inv
  <1>2. UNION arg \in SUBSET Types /\ allowed \in SUBSET Types
    BY <1>1 DEF Arguments, Clients
  <1>3. objects' = [objects EXCEPT ![clients[k]].allowed = allowed]
    BY DEF Update
  <1>4. UNCHANGED <<clients, nextId>>
        /\ asked' = [asked EXCEPT ![k] = IF arg = {} THEN @ ELSE UNION arg]
    BY DEF Update
  <1> HIDE DEF allowed
  <1>5. /\ objects' \in Seq(Clients) /\ Len(objects') = Len(objects)
        /\ \A n \in 1..Len(objects) :
             objects'[n].id = objects[n].id /\ objects'[n].key = objects[n].key
    BY <1>1, <1>2, <1>3, SMTT(60) DEF Inv, TypeOK, Clients
  <1>6. TypeOK'
    BY <1>2, <1>4, <1>5 DEF Inv, TypeOK, Refs
  <1>7. IdInv'
    BY <1>4, <1>5, RefType DEF Inv, IdInv, Registered
  <1>8. QED
    BY <1>6, <1>7 DEF Inv

LEMMA InvStep == Inv /\ [Next]_vars => Inv'
  <1> SUFFICES ASSUME Inv, [Next]_vars
               PROVE  Inv'
    OBVIOUS
  <1> USE DEF Inv
  <1>1. ASSUME NEW k \in Keys, NEW arg \in Arguments, AddClient(k, arg)
        PROVE  Inv'
    BY <1>1, BuildStep, UpdateStep DEF AddClient
  <1>2. ASSUME NEW k \in Keys, DeleteClient(k)
        PROVE  Inv'
    BY <1>2 DEF DeleteClient, TypeOK, IdInv, Refs, Registered
  <1>3. ASSUME NEW h \in Holders, NEW k \in Keys, GetByKey(h, k)
        PROVE  Inv'
    BY <1>3 DEF GetByKey, TypeOK, IdInv, Refs, Registered
  <1>4. ASSUME NEW h \in Holders, Refresh(h)
        PROVE  Inv'
    <2>1. GetById(objects[held[h]].id) \in Refs
      BY <1>4, RefType, IdFindsObject DEF Refresh, Refs
    <2>2. QED
      BY <1>4, <2>1 DEF Refresh, TypeOK, IdInv, Refs, Registered
  <1>5. ASSUME NEW h \in Holders, UpdateItem(h)
        PROVE  Inv'
    <2>1. held[h] \in 1..Len(objects) /\ objects[held[h]].key \in Keys
      BY <1>5, RefType DEF UpdateItem, Clients
    <2>2. QED
      BY <1>5, <2>1 DEF UpdateItem, TypeOK, IdInv, Refs, Registered
  <1>6. CASE UNCHANGED vars
    BY <1>6 DEF vars, TypeOK, IdInv, Refs, Registered
  <1>7. QED
    BY <1>1, <1>2, <1>3, <1>4, <1>5, <1>6 DEF Next

\* The database keeps its types: a row and whatever a caller holds are objects
\* that add_client built, of which an update replaces the rights only.
THEOREM TypeCorrect == Spec => []TypeOK
  <1>1. Inv => TypeOK
    BY DEF Inv
  <1>2. QED
    BY <1>1, InvInit, InvStep, PTL DEF Spec

\* A cached client_id gives back the client it was cached for, or None: it is
\* never ambiguous, however rows are deleted, added and written back.
THEOREM IdsAreNeverReused == Spec => [](RefreshKeepsClient /\ LookupsAgree)
  <1>1. Inv => RefreshKeepsClient /\ LookupsAgree
    <2> SUFFICES ASSUME Inv
                 PROVE  RefreshKeepsClient /\ LookupsAgree
      OBVIOUS
    <2>1. RefreshKeepsClient
      BY IdFindsObject, RefType DEF Inv, RefreshKeepsClient
    <2>2. LookupsAgree
      BY IdFindsObject, RefType DEF Inv, IdInv, LookupsAgree, Registered
    <2>3. QED
      BY <2>1, <2>2
  <1>2. QED
    BY <1>1, InvInit, InvStep, PTL DEF Spec

\* Until its key is revoked, every object ever built is the row of its key.
ShareInv ==
  /\ Inv
  /\ \A n \in 1..Len(objects) :
       objects[n].key \notin revoked => clients[objects[n].key] = n
  /\ RightsAreTheLatest

LEMMA ShareInvInit == Init => ShareInv
  BY InvInit DEF Init, ShareInv, RightsAreTheLatest, Registered

LEMMA ShareInsert ==
  ASSUME ShareInv, NEW k \in Keys, NEW arg \in Arguments, Insert(k, arg),
         UNCHANGED <<held, revoked>>
  PROVE  ShareInv'
  <1> DEFINE new == [key |-> k, id |-> nextId + 1, allowed |-> UNION arg]
  <1>1. Inv'
    BY BuildStep DEF ShareInv
  <1>2. /\ objects' = Append(objects, new)
        /\ clients' = [clients EXCEPT ![k] = Len(objects) + 1]
        /\ asked' = [asked EXCEPT ![k] = UNION arg]
    BY DEF Insert, Build
  <1>3. new.key = k /\ new.allowed = UNION arg
    OBVIOUS
  <1> HIDE DEF new
  <1>4. /\ Len(objects') = Len(objects) + 1
        /\ \A n \in 1..Len(objects) : objects'[n] = objects[n]
        /\ objects'[Len(objects) + 1] = new
    BY <1>2 DEF ShareInv, Inv, TypeOK
  <1>5. /\ clients'[k] = Len(objects) + 1 /\ asked'[k] = UNION arg
        /\ \A l \in Keys \ {k} : clients'[l] = clients[l] /\ asked'[l] = asked[l]
    BY <1>2 DEF ShareInv, Inv, TypeOK
  <1>6. \A n \in 1..Len(objects) :
          objects[n].key \in Keys /\ (objects[n].key \notin revoked => objects[n].key # k)
    BY RefType DEF Insert, Registered, ShareInv, Inv, Clients
  <1>7. \A n \in 1..Len(objects') :
          objects'[n].key \notin revoked' => clients'[objects'[n].key] = n
    BY <1>3, <1>4, <1>5, <1>6, RefType DEF ShareInv, Inv
  <1>8. RightsAreTheLatest'
    <2>1. ASSUME NEW l \in Keys, clients'[l] # 0, l \notin revoked'
          PROVE  objects'[clients'[l]].allowed = asked'[l]
      <3>1. CASE l = k
        BY <1>3, <1>4, <1>5, <3>1
      <3>2. CASE l # k
        <4>1. clients'[l] = clients[l] /\ asked'[l] = asked[l]
          BY <1>5, <3>2
        <4>2. clients[l] \in 1..Len(objects)
          BY <2>1, <4>1, RefType DEF ShareInv, Inv
        <4>3. objects[clients[l]].allowed = asked[l]
          BY <2>1, <4>1 DEF ShareInv, RightsAreTheLatest, Registered
        <4>4. QED
          BY <1>4, <4>1, <4>2, <4>3
      <3>3. QED
        BY <3>1, <3>2
    <2>2. QED
      BY <2>1, Zenon DEF RightsAreTheLatest, Registered
  <1>9. QED
    BY <1>1, <1>7, <1>8 DEF ShareInv

LEMMA ShareUpdate ==
  ASSUME ShareInv, NEW k \in Keys, NEW arg \in Arguments, Update(k, arg),
         UNCHANGED <<held, revoked>>
  PROVE  ShareInv'
  <1> DEFINE allowed == IF arg = {} THEN objects[clients[k]].allowed ELSE UNION arg
  <1>1. Inv'
    BY UpdateStep DEF ShareInv
  <1>2. clients[k] \in 1..Len(objects) /\ objects[clients[k]].key = k
    BY RefType DEF Update, Registered, ShareInv, Inv, IdInv
  <1>3. /\ objects' = [objects EXCEPT ![clients[k]].allowed = allowed]
        /\ UNCHANGED clients
        /\ asked' = [asked EXCEPT ![k] = IF arg = {} THEN @ ELSE UNION arg]
    BY DEF Update
  <1>4. /\ Len(objects') = Len(objects)
        /\ \A n \in 1..Len(objects) : objects'[n].key = objects[n].key
        /\ objects'[clients[k]].allowed = allowed
        /\ \A n \in 1..Len(objects) : n # clients[k] => objects'[n] = objects[n]
    BY <1>2, <1>3 DEF ShareInv, Inv, TypeOK, Clients
  <1>5. /\ asked'[k] = IF arg = {} THEN asked[k] ELSE UNION arg
        /\ \A l \in Keys \ {k} : asked'[l] = asked[l]
    BY <1>3 DEF ShareInv, Inv, TypeOK
  <1>6. \A l \in Keys \ {k} : Registered(l) => clients[l] # clients[k] /\ clients[l] \in 1..Len(objects)
    BY <1>2, RefType DEF ShareInv, Inv, IdInv, Registered
  <1>7. \A l \in Keys : (Registered(l))' <=> Registered(l)
    BY <1>3 DEF Registered
  <1>8. Registered(k) /\ (k \notin revoked => objects[clients[k]].allowed = asked[k])
    BY DEF Update, ShareInv, RightsAreTheLatest
  <1>9. RightsAreTheLatest'
    BY <1>3, <1>4, <1>5, <1>6, <1>7, <1>8 DEF ShareInv, RightsAreTheLatest
  <1>10. QED
    BY <1>1, <1>3, <1>4, <1>9 DEF ShareInv

LEMMA ShareInvStep == ShareInv /\ [Next]_vars => ShareInv'
  <1> SUFFICES ASSUME ShareInv, [Next]_vars
               PROVE  ShareInv'
    OBVIOUS
  <1>1. Inv'
    BY InvStep DEF ShareInv
  <1>2. ASSUME NEW k \in Keys, NEW arg \in Arguments, AddClient(k, arg)
        PROVE  ShareInv'
    BY <1>2, ShareInsert, ShareUpdate DEF AddClient
  <1>3. ASSUME NEW k \in Keys, DeleteClient(k)
        PROVE  ShareInv'
    BY <1>1, <1>3 DEF DeleteClient, ShareInv, Inv, TypeOK, Registered, RightsAreTheLatest
  <1>4. ASSUME UNCHANGED <<clients, objects, revoked, asked>>
        PROVE  ShareInv'
    BY <1>1, <1>4 DEF ShareInv, Registered, RightsAreTheLatest
  <1>5. ASSUME NEW h \in Holders, UpdateItem(h)
        PROVE  ShareInv'
    <2>1. held[h] \in 1..Len(objects) /\ objects[held[h]].key \in Keys
      BY <1>5, RefType DEF UpdateItem, Clients, ShareInv, Inv
    <2>2. objects[held[h]].key \notin revoked => clients' = clients
      BY <1>5, <2>1 DEF UpdateItem, ShareInv, Inv, TypeOK
    <2>3. \A l \in Keys \ {objects[held[h]].key} : clients'[l] = clients[l]
      BY <1>5, <2>1 DEF UpdateItem, ShareInv, Inv, TypeOK
    <2>4. UNCHANGED <<objects, revoked, asked>>
      BY <1>5 DEF UpdateItem
    <2>5. \A n \in 1..Len(objects) : objects[n].key \in Keys
      BY RefType DEF ShareInv, Inv, Clients
    <2>6. \A n \in 1..Len(objects) :
            objects[n].key \notin revoked => clients'[objects[n].key] = n
      BY <2>2, <2>3, <2>5 DEF ShareInv
    <2>7. RightsAreTheLatest'
      BY <2>2, <2>3, <2>4 DEF ShareInv, RightsAreTheLatest, Registered
    <2>8. QED
      BY <1>1, <2>4, <2>6, <2>7 DEF ShareInv
  <1>6. QED
    BY <1>2, <1>3, <1>4, <1>5 DEF Next, vars, GetByKey, Refresh

\* Rows are shared, not copied: short of a revocation, what a connection kept
\* is the stored row, with the rights of the latest registration, and no
\* stale write-back can undo one.
THEOREM RowsAreShared == Spec => [](NoForkedClient /\ RightsAreTheLatest)
  <1>1. ShareInv => NoForkedClient /\ RightsAreTheLatest
    BY RefType DEF ShareInv, NoForkedClient, Inv
  <1>2. QED
    BY <1>1, ShareInvInit, ShareInvStep, PTL DEF Spec

=============================================================================
