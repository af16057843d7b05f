---------------------------- MODULE ListingProofs ----------------------------
(***************************************************************************)
(* Proofs about Listing for any number of clients and any set of copies.   *)
(* The inductive invariant says what a handler in the middle of its loop   *)
(* has: every client up to its start key that was in all copies when it    *)
(* began, nobody past the start key, and only entries the table backs.     *)
(***************************************************************************)
EXTENDS Listing, FiniteSetTheorems, TLAPS

\* The index never knows more than the table.
IndexBehind ==
  \A copy \in Copies, c \in Clients :
    /\ index[copy][c] # "none" => record[c] # "none"
    /\ index[copy][c] = "revoked" => record[c] = "revoked"

\* What every copy held when the listing began it still holds.
HistoryHolds ==
  \A copy \in Copies :
    /\ \A c \in indexed : index[copy][c] # "none"
    /\ \A c \in gone : index[copy][c] = "revoked"

\* An entry of the list is backed by the table.
EntriesBacked ==
  \A i \in DOMAIN clients :
    /\ record[clients[i].id] # "none"
    /\ ~clients[i].active => record[clients[i].id] = "revoked"
    /\ clients[i].active => clients[i].id \notin gone

\* The loop: nothing past the start key yet, and all there was up to it.
Progressing ==
  /\ pc = "idle" => clients = <<>>
  /\ pc # "query" => startKey = NoKey
  /\ pc = "query" =>
       /\ \A i \in DOMAIN clients : clients[i].id <= startKey
       /\ \A c \in indexed : c <= startKey => c \in Listed
  /\ pc = "answered" => indexed \subseteq Listed

IInv ==
  /\ TypeOK
  /\ ListedInOrder
  /\ IndexBehind
  /\ HistoryHolds
  /\ EntriesBacked
  /\ Progressing

-----------------------------------------------------------------------------
\* A page in order is a sequence of the set it is made of.
LEMMA PageIsSequence ==
  ASSUME NEW S \in SUBSET Clients, NEW page \in InOrder(S)
  PROVE  \E n \in Nat : page \in [1 .. n -> S]
<1>1. IsFiniteSet(S)
  <2>1. IsFiniteSet(Clients)
    BY ListingAssumption, FS_Interval DEF Clients
  <2> QED BY <2>1, FS_Subset
<1>2. Cardinality(S) \in Nat
  BY <1>1, FS_CardinalityType
<1> QED
  BY <1>2 DEF InOrder

Entries == [id : Clients, active : BOOLEAN]
Past(key) == {c \in Clients : c > key}
Ids(list) == {list[i].id : i \in DOMAIN list}
Ascending(list) == \A i, j \in DOMAIN list : i < j => list[i].id < list[j].id
Reached(list, key) == \A i \in DOMAIN list : list[i].id <= key
EntriesOf(page, shown) == [i \in DOMAIN page |-> [id |-> page[i], active |-> shown[i]]]

\* Every entry of new is one of old or one of the page's.
OldOrOfPage(new, old, page, shown) ==
  \A i \in DOMAIN new :
    \/ i \in DOMAIN old /\ new[i] = old[i]
    \/ \E k \in DOMAIN page : new[i] = EntriesOf(page, shown)[k]

\* A page that may be appended to what was collected up to key: it is made of
\* clients past key.
Appendable(old, key, S, page, shown) ==
  /\ old \in Seq(Entries)
  /\ key \in Clients \cup {NoKey}
  /\ S \subseteq Past(key)
  /\ page \in InOrder(S)
  /\ shown \in [DOMAIN page -> BOOLEAN]
  /\ Ascending(old)
  /\ Reached(old, key)

\* Appending it keeps the order and adds exactly the page's clients.
Appended(new, old, S, page, shown) ==
  /\ new \in Seq(Entries)
  /\ Ascending(new)
  /\ OldOrOfPage(new, old, page, shown)
  /\ Ids(new) = Ids(old) \cup S

LEMMA AppendPage ==
  \A old, key, S, page, shown :
    Appendable(old, key, S, page, shown) =>
      Appended(old \o EntriesOf(page, shown), old, S, page, shown)
<1> SUFFICES ASSUME NEW old, NEW key, NEW S, NEW page, NEW shown,
                    Appendable(old, key, S, page, shown)
             PROVE  Appended(old \o EntriesOf(page, shown), old, S, page, shown)
  OBVIOUS
<1>h. /\ old \in Seq(Entries)
      /\ key \in Clients \cup {NoKey}
      /\ S \in SUBSET Past(key)
      /\ page \in InOrder(S)
      /\ shown \in [DOMAIN page -> BOOLEAN]
      /\ Ascending(old) /\ Reached(old, key)
  BY DEF Appendable
<1> DEFINE Entry == Entries
           items == EntriesOf(page, shown)
           m == Len(old)
           new == old \o items
<1>1. PICK n \in Nat : page \in [1 .. n -> S]
  BY <1>h, PageIsSequence DEF Past
<1>2. S \subseteq Clients /\ \A c \in S : c > key
  BY <1>h DEF Past
<1>3. /\ items \in [1 .. n -> Entry]
      /\ \A i \in 1 .. n : items[i].id = page[i]
  BY <1>1, <1>2, <1>h DEF Entries, EntriesOf
<1>0. old \in Seq(Entry)
  BY <1>h
<1>r. \A e \in Entry : e.id \in Clients
  BY DEF Entries
<1> HIDE DEF Entry, items
<1>4. /\ items \in Seq(Entry)
      /\ Len(items) = n
      /\ DOMAIN items = 1 .. n
  BY <1>3
<1>5. m \in Nat /\ DOMAIN old = 1 .. m /\ \A i \in 1 .. m : old[i] \in Entry
  BY <1>0
<1>6. /\ new \in Seq(Entry)
      /\ DOMAIN new = 1 .. m + n
      /\ \A i \in 1 .. m : new[i] = old[i]
      /\ \A i \in m + 1 .. m + n : new[i] = items[i - m] /\ i - m \in 1 .. n
  BY <1>0, <1>4, <1>5
<1>7. /\ \A i, j \in 1 .. n : i < j => page[i] < page[j]
      /\ \A c \in S : \E i \in 1 .. n : page[i] = c
      /\ \A i \in 1 .. n : page[i] \in S /\ page[i] \in Int /\ page[i] > key
  <2>1. /\ \A i, j \in DOMAIN page : i < j => page[i] < page[j]
        /\ \A c \in S : \E i \in DOMAIN page : page[i] = c
    BY <1>h DEF InOrder
  <2>2. DOMAIN page = 1 .. n
    BY <1>1
  <2>3. \A c \in S : c \in Int /\ c > key
    BY <1>2, ListingAssumption DEF Clients
  <2> QED BY <1>1, <2>1, <2>2, <2>3
<1> HIDE DEF new, m
<1>a. \A i \in 1 .. m + n :
        /\ i \in Int
        /\ i <= m => i \in 1 .. m
        /\ i > m => i \in m + 1 .. m + n /\ i - m \in 1 .. n
  BY <1>1, <1>5
<1>b. \A i \in 1 .. m : i \in DOMAIN old /\ new[i] = old[i]
  BY <1>5, <1>6
<1>c. \A i \in m + 1 .. m + n :
        /\ new[i] = items[i - m]
        /\ new[i].id = page[i - m]
  BY <1>3, <1>6
<1>8. ASSUME NEW i \in 1 .. m + n, NEW j \in 1 .. m + n, i < j
      PROVE  new[i].id < new[j].id
  <2>1. CASE j <= m
    <3>1. i \in 1 .. m /\ j \in 1 .. m
      BY <1>a, <1>5, <1>8, <2>1
    <3> QED BY <1>b, <1>h, <1>8, <3>1 DEF Ascending
  <2>2. CASE i <= m /\ j > m
    <3>1. /\ new[i] = old[i] /\ i \in DOMAIN old
          /\ new[j].id = page[j - m] /\ j - m \in 1 .. n
      BY <1>a, <1>b, <1>c, <2>2
    <3>2. /\ old[i].id <= key /\ page[j - m] > key
          /\ old[i].id \in Int /\ page[j - m] \in Int /\ key \in Int
      BY <1>h, <1>5, <1>7, <3>1, <1>r DEF Clients, NoKey, Reached
    <3> QED BY <3>1, <3>2
  <2>3. CASE i > m
    <3>1. j > m /\ i - m < j - m
      BY <1>a, <1>5, <1>8, <2>3
    <3>2. /\ new[i].id = page[i - m] /\ i - m \in 1 .. n
          /\ new[j].id = page[j - m] /\ j - m \in 1 .. n
      BY <1>a, <1>c, <2>3, <3>1
    <3> QED BY <1>7, <3>1, <3>2
  <2> QED BY <1>1, <1>5, <2>1, <2>2, <2>3
<1>9. ASSUME NEW i \in 1 .. m + n
      PROVE  (i \in DOMAIN old /\ new[i] = old[i])
               \/ \E k \in DOMAIN page : new[i] = items[k]
  <2>1. CASE i <= m
    BY <1>a, <1>b, <2>1
  <2>2. CASE i > m
    <3>1. new[i] = items[i - m] /\ i - m \in DOMAIN page
      BY <1>1, <1>a, <1>c, <2>2
    <3>2. \E k \in DOMAIN page : new[i] = items[k]
      <4> DEFINE k == i - m
      <4> SUFFICES new[i] = items[k] /\ k \in DOMAIN page
        OBVIOUS
      <4> QED BY <3>1
    <3> QED BY <3>2
  <2>3. i <= m \/ i > m
    BY <1>a, <1>5
  <2> QED BY <2>1, <2>2, <2>3
<1>10. ASSUME NEW c
       PROVE  (\E i \in 1 .. m + n : c = new[i].id)
                <=> (\E i \in 1 .. m : c = old[i].id) \/ c \in S
  <2>1. ASSUME NEW i \in 1 .. m + n, c = new[i].id
        PROVE  (\E k \in 1 .. m : c = old[k].id) \/ c \in S
    <3>1. CASE i <= m
      BY <1>1, <1>5, <1>6, <2>1, <3>1
    <3>2. CASE i > m
      <4>1. i - m \in 1 .. n /\ new[i].id = page[i - m]
        BY <1>1, <1>3, <1>5, <1>6, <3>2
      <4> QED BY <1>7, <2>1, <4>1
    <3> QED BY <1>1, <1>5, <3>1, <3>2
  <2>2. ASSUME NEW i \in 1 .. m, c = old[i].id
        PROVE  \E k \in 1 .. m + n : c = new[k].id
    BY <1>1, <1>5, <1>6, <2>2
  <2>3. ASSUME c \in S
        PROVE  \E k \in 1 .. m + n : c = new[k].id
    <3>1. PICK k \in 1 .. n : page[k] = c
      BY <1>7, <2>3
    <3>2. m + k \in 1 .. m + n /\ m + k \in m + 1 .. m + n /\ (m + k) - m = k
      BY <1>5
    <3>3. new[m + k] = items[k]
      BY <1>6, <3>2
    <3> QED BY <1>3, <3>1, <3>2, <3>3
  <2> QED BY <2>1, <2>2, <2>3
<1>11. {new[i].id : i \in DOMAIN new} = {old[i].id : i \in DOMAIN old} \cup S
  <2> DEFINE N == 1 .. m + n
             O == 1 .. m
  <2>1. DOMAIN new = N /\ DOMAIN old = O
    BY <1>5, <1>6
  <2>2. \A c : (\E i \in N : c = new[i].id) <=> (\E i \in O : c = old[i].id) \/ c \in S
    BY <1>10
  <2> HIDE DEF N, O
  <2>3. {new[i].id : i \in N} = {old[i].id : i \in O} \cup S
    BY <2>2
  <2> QED BY <2>1, <2>3
<1> QED
  <2>1. new \in Seq(Entries) /\ Ascending(new)
    BY <1>6, <1>8 DEF Entry, Ascending
  <2>2. OldOrOfPage(new, old, page, shown)
    BY <1>6, <1>9 DEF OldOrOfPage, items
  <2>3. Ids(new) = Ids(old) \cup S
    BY <1>11 DEF Ids
  <2> QED BY <2>1, <2>2, <2>3 DEF new, items, Appended

-----------------------------------------------------------------------------
LEMMA InitOK == ASSUME Init PROVE IInv
<1>1. TypeOK
  BY DEF Init, TypeOK, States, NoKey
<1>2. clients = <<>> /\ DOMAIN clients = {} /\ pc = "idle"
  BY DEF Init
<1>3. ListedInOrder /\ EntriesBacked
  BY <1>2 DEF ListedInOrder, EntriesBacked
<1>4. IndexBehind /\ HistoryHolds /\ Progressing
  BY <1>2 DEF Init, IndexBehind, HistoryHolds, Progressing
<1> QED BY <1>1, <1>3, <1>4 DEF IInv

LEMMA EntryOfClient ==
  ASSUME NEW list \in Seq([id : Clients, active : BOOLEAN])
  PROVE  \A i \in DOMAIN list : list[i].id \in Clients
<1> DEFINE Entry == [id : Clients, active : BOOLEAN]
<1>1. \A e \in Entry : e.id \in Clients
  OBVIOUS
<1>2. list \in Seq(Entry)
  OBVIOUS
<1> HIDE DEF Entry
<1>3. \A i \in DOMAIN list : list[i] \in Entry
  BY <1>2
<1> QED BY <1>1, <1>3

\* A write of the table or of the index changes nothing the handler holds, and
\* takes no record or entry back.
LEMMA TableStep ==
  ASSUME IInv, UNCHANGED listVars,
         record' \in [Clients -> States], index' \in [Copies -> [Clients -> States]],
         IndexBehind',
         \A c \in Clients :
           /\ record[c] # "none" => record'[c] # "none"
           /\ record[c] = "revoked" => record'[c] = "revoked",
         \A copy \in Copies, c \in Clients :
           /\ index[copy][c] # "none" => index'[copy][c] # "none"
           /\ index[copy][c] = "revoked" => index'[copy][c] = "revoked"
  PROVE  IInv'
<1>1. TypeOK'
  BY DEF IInv, TypeOK, listVars
<1>2. ListedInOrder' /\ Progressing'
  BY DEF IInv, ListedInOrder, Progressing, Listed, listVars
<1>3. HistoryHolds'
  BY DEF IInv, TypeOK, HistoryHolds, listVars
<1>4. EntriesBacked'
  <2>1. \A i \in DOMAIN clients : clients[i].id \in Clients
    BY EntryOfClient DEF IInv, TypeOK
  <2> QED BY <2>1 DEF IInv, EntriesBacked, listVars
<1> QED BY <1>1, <1>2, <1>3, <1>4 DEF IInv

LEMMA CreateStep == ASSUME IInv, NEW c \in Clients, Create(c) PROVE IInv'
<1>1. /\ record' = [record EXCEPT ![c] = "active"] /\ record[c] = "none"
      /\ index' = index /\ UNCHANGED listVars
  BY DEF Create
<1>2. IndexBehind'
  BY <1>1 DEF IInv, TypeOK, IndexBehind
<1> QED BY <1>1, <1>2, TableStep DEF IInv, TypeOK, States

LEMMA RevokeStep == ASSUME IInv, NEW c \in Clients, Revoke(c) PROVE IInv'
<1>1. /\ record' = [record EXCEPT ![c] = "revoked"] /\ record[c] = "active"
      /\ index' = index /\ UNCHANGED listVars
  BY DEF Revoke
<1>2. IndexBehind'
  BY <1>1 DEF IInv, TypeOK, IndexBehind
<1> QED BY <1>1, <1>2, TableStep DEF IInv, TypeOK, States

LEMMA PropagateStep ==
  ASSUME IInv, NEW copy \in Copies, NEW c \in Clients, Propagate(copy, c)
  PROVE  IInv'
<1>1. /\ index' = [index EXCEPT ![copy][c] = record[c]]
      /\ record' = record /\ UNCHANGED listVars
  BY DEF Propagate
<1>2. index' \in [Copies -> [Clients -> States]]
  BY <1>1 DEF IInv, TypeOK
<1>3. \A i \in Copies, d \in Clients :
        index'[i][d] = IF i = copy /\ d = c THEN record[c] ELSE index[i][d]
  BY <1>1 DEF IInv, TypeOK
<1>4. IndexBehind'
  BY <1>1, <1>3 DEF IInv, IndexBehind
<1>5. \A i \in Copies, d \in Clients :
        /\ index[i][d] # "none" => index'[i][d] # "none"
        /\ index[i][d] = "revoked" => index'[i][d] = "revoked"
  BY <1>3 DEF IInv, IndexBehind
<1> QED BY <1>1, <1>2, <1>4, <1>5, TableStep DEF IInv, TypeOK

LEMMA ListStep == ASSUME IInv, List PROVE IInv'
<1>1. /\ UNCHANGED <<record, index, clients, startKey>>
      /\ clients = <<>> /\ startKey = NoKey /\ pc' = "query"
      /\ indexed' = {c \in Clients : \A copy \in Copies : index[copy][c] # "none"}
      /\ gone' = {c \in Clients : \A copy \in Copies : index[copy][c] = "revoked"}
  BY DEF IInv, List, Progressing, tableVars
<1>2. TypeOK'
  BY <1>1, ListingAssumption DEF IInv, TypeOK
<1>3. ListedInOrder' /\ EntriesBacked'
  BY <1>1 DEF ListedInOrder, EntriesBacked
<1>4. IndexBehind' /\ HistoryHolds'
  BY <1>1 DEF IInv, IndexBehind, HistoryHolds
<1>5. Progressing'
  BY <1>1, <1>2 DEF Progressing, TypeOK, NoKey, Clients
<1> QED BY <1>2, <1>3, <1>4, <1>5 DEF IInv

LEMMA FailStep == ASSUME IInv, Fail PROVE IInv'
BY DEF IInv, Fail, TypeOK, ListedInOrder, IndexBehind, HistoryHolds,
       EntriesBacked, Progressing, Listed, tableVars, NoKey, Clients

LEMMA ReceiveStep == ASSUME IInv, Receive PROVE IInv'
<1>1. /\ UNCHANGED <<record, index, startKey>>
      /\ clients' = <<>> /\ pc' = "idle" /\ indexed' = {} /\ gone' = {}
      /\ pc \in {"answered", "error"}
  BY DEF Receive, tableVars
<1>2. TypeOK'
  BY <1>1 DEF IInv, TypeOK
<1>3. ListedInOrder' /\ EntriesBacked'
  BY <1>1 DEF ListedInOrder, EntriesBacked
<1>4. IndexBehind' /\ HistoryHolds'
  BY <1>1 DEF IInv, IndexBehind, HistoryHolds
<1>5. Progressing'
  BY <1>1 DEF IInv, Progressing
<1> QED BY <1>2, <1>3, <1>4, <1>5 DEF IInv

-----------------------------------------------------------------------------
\* A round of the loop, cut anywhere or not at all.
LEMMA QueryStep ==
  ASSUME IInv, NEW copy \in Copies, NEW last, Query(copy, last)
  PROVE  IInv'
<1> DEFINE S == {c \in Found(copy) : last = NoKey \/ c <= last}
<1>1. PICK page \in InOrder(S) : clients' = clients \o Items(copy, page)
  BY DEF Query
<1>2. /\ pc = "query" /\ last \in Found(copy) \cup {NoKey}
      /\ UNCHANGED <<record, index, indexed, gone>>
      /\ last = NoKey => pc' = "answered" /\ startKey' = NoKey
      /\ last # NoKey => pc' = "query" /\ startKey' = last
  BY DEF Query, NoMorePages, NextStart, tableVars
<1>3. /\ clients \in Seq(Entries)
      /\ startKey \in Clients \cup {NoKey}
      /\ Ascending(clients) /\ Reached(clients, startKey)
  BY <1>2 DEF IInv, TypeOK, ListedInOrder, Progressing, Entries, Ascending, Reached
<1>4. S \in SUBSET Past(startKey)
  BY DEF Found, Past
<1> DEFINE shown == [i \in DOMAIN page |-> Active(index[copy][page[i]])]
           items == EntriesOf(page, shown)
<1>5. \A i \in DOMAIN page : page[i] \in S
  BY PageIsSequence, <1>4 DEF Past
<1>6. /\ shown \in [DOMAIN page -> BOOLEAN]
      /\ clients' = clients \o items
      /\ page \in InOrder(S)
  BY <1>1 DEF Active, Items, EntriesOf
<1>7. /\ clients' \in Seq(Entries)
      /\ Ascending(clients')
      /\ OldOrOfPage(clients', clients, page, shown)
      /\ Listed' = Listed \cup S
  <2> HIDE DEF S, shown
  <2>1. /\ clients' \in Seq(Entries)
        /\ Ascending(clients')
        /\ OldOrOfPage(clients', clients, page, shown)
        /\ Ids(clients') = Ids(clients) \cup S
    <3>1. Appendable(clients, startKey, S, page, shown)
      BY <1>3, <1>4, <1>6 DEF Appendable
    <3>2. Appended(clients', clients, S, page, shown)
      BY <1>6, <3>1, AppendPage
    <3> QED BY <3>2 DEF Appended
  <2> QED BY <2>1 DEF Listed, Ids
<1>8. \A k \in DOMAIN page :
        /\ items[k].id = page[k] /\ page[k] \in S
        /\ items[k].active <=> index[copy][page[k]] = "active"
  BY <1>5 DEF EntriesOf, Active
<1>8a. \A i \in DOMAIN clients' :
         \/ i \in DOMAIN clients /\ clients'[i] = clients[i]
         \/ \E k \in DOMAIN page : clients'[i] = items[k]
  BY <1>7 DEF OldOrOfPage
<1> HIDE DEF items, shown
<1>9. startKey' \in Clients \cup {NoKey}
  BY <1>2 DEF Found
<1>10. TypeOK'
  BY <1>2, <1>7, <1>9 DEF IInv, TypeOK, Entries
<1>11. ListedInOrder'
  BY <1>7 DEF ListedInOrder, Ascending
<1>12. IndexBehind' /\ HistoryHolds'
  BY <1>2 DEF IInv, IndexBehind, HistoryHolds
<1>13. EntriesBacked'
  <2> SUFFICES ASSUME NEW i \in DOMAIN clients'
               PROVE  /\ record[clients'[i].id] # "none"
                      /\ ~clients'[i].active => record[clients'[i].id] = "revoked"
                      /\ clients'[i].active => clients'[i].id \notin gone
    BY <1>2 DEF EntriesBacked
  <2>1. CASE i \in DOMAIN clients /\ clients'[i] = clients[i]
    BY <2>1 DEF IInv, EntriesBacked
  <2>2. CASE \E k \in DOMAIN page : clients'[i] = items[k]
    <3>1. PICK k \in DOMAIN page : clients'[i] = items[k]
      BY <2>2
    <3>2. page[k] \in Clients /\ index[copy][page[k]] # "none"
      BY <1>8 DEF Found
    <3>3. index[copy][page[k]] \in States
      BY <3>2 DEF IInv, TypeOK
    <3>4. /\ record[page[k]] # "none"
          /\ index[copy][page[k]] = "revoked" => record[page[k]] = "revoked"
      BY <3>2 DEF IInv, IndexBehind
    <3>5. index[copy][page[k]] = "active" => page[k] \notin gone
      BY DEF IInv, HistoryHolds
    <3> QED BY <1>8, <3>1, <3>2, <3>3, <3>4, <3>5 DEF States
  <2> QED BY <1>8a, <2>1, <2>2
<1>14. Progressing'
  <2>1. \A c \in indexed : c \in Clients /\ index[copy][c] # "none"
    BY DEF IInv, TypeOK, HistoryHolds
  <2>2. \A c \in indexed : c <= startKey => c \in Listed
    BY <1>2 DEF IInv, Progressing
  <2>3. ASSUME NEW c \in indexed, last = NoKey \/ c <= last
        PROVE  c \in Listed'
    <3>1. CASE c <= startKey
      BY <1>7, <2>2, <3>1
    <3>2. CASE c > startKey
      BY <1>7, <2>1, <2>3, <3>2 DEF Found
    <3>3. c <= startKey \/ c > startKey
      BY <1>3, <2>1 DEF Clients, NoKey
    <3> QED BY <3>1, <3>2, <3>3
  <2>4. ASSUME last # NoKey, NEW i \in DOMAIN clients'
        PROVE  clients'[i].id <= last
    <3>1. last \in Clients /\ last > startKey
      BY <1>2, <2>4 DEF Found
    <3>2. clients'[i].id \in Listed'
      BY DEF Listed
    <3>3. CASE clients'[i].id \in S
      BY <2>4, <3>3
    <3>4. CASE clients'[i].id \in Listed
      <4>1. PICK j \in DOMAIN clients : clients'[i].id = clients[j].id
        BY <3>4 DEF Listed
      <4>2. clients[j].id \in Clients /\ clients[j].id <= startKey
        BY <1>3, EntryOfClient DEF Entries, Reached
      <4> QED BY <1>3, <3>1, <4>1, <4>2 DEF Clients, NoKey
    <3> QED BY <1>7, <3>2, <3>3, <3>4
  <2> HIDE DEF S
  <2>5. CASE last = NoKey
    BY <1>2, <2>3, <2>5 DEF Progressing
  <2>6. CASE last # NoKey
    BY <1>2, <2>3, <2>4, <2>6 DEF Progressing
  <2> QED BY <2>5, <2>6
<1> QED BY <1>10, <1>11, <1>12, <1>13, <1>14 DEF IInv

LEMMA Inductive == ASSUME IInv, [Next]_vars PROVE IInv'
<1>1. CASE UNCHANGED vars
  BY <1>1 DEF vars, IInv, TypeOK, ListedInOrder, IndexBehind, HistoryHolds,
              EntriesBacked, Progressing, Listed
<1>2. CASE \E c \in Clients : Create(c) \/ Revoke(c)
  BY <1>2, CreateStep, RevokeStep
<1>3. CASE \E copy \in Copies, c \in Clients : Propagate(copy, c)
  BY <1>3, PropagateStep
<1>4. CASE List
  BY <1>4, ListStep
<1>5. CASE Queries
  BY <1>5, QueryStep DEF Queries
<1>6. CASE Fail
  BY <1>6, FailStep
<1>7. CASE Receive
  BY <1>7, ReceiveStep
<1> QED BY <1>1, <1>2, <1>3, <1>4, <1>5, <1>6, <1>7 DEF Next

THEOREM Invariance == Spec => []IInv
<1>1. Init => IInv
  BY InitOK
<1>2. IInv /\ [Next]_vars => IInv'
  BY Inductive
<1> QED BY <1>1, <1>2, PTL DEF Spec

-----------------------------------------------------------------------------
\* The table, the index and the handler keep their shape.
THEOREM TypeCorrect == Spec => []TypeOK
<1>1. IInv => TypeOK
  BY DEF IInv
<1> QED BY <1>1, Invariance, PTL

\* The list is in the order of clientIds and names no client twice, however
\* many pages it takes and from whichever copies they come.
THEOREM InOrderAlways == Spec => []ListedInOrder
<1>1. IInv => ListedInOrder
  BY DEF IInv
<1> QED BY <1>1, Invariance, PTL

\* An answered list leaves out no client that every copy held when the listing
\* began, and names only clients that exist.
THEOREM NobodyLeftOut == Spec => []ListedComplete
<1>1. IInv => ListedComplete
  BY DEF IInv, Progressing, EntriesBacked, ListedComplete, Listed
<1> QED BY <1>1, Invariance, PTL

\* A revocation that had reached the index is shown, and none is shown that did
\* not happen.
THEOREM RevocationsShown == Spec => []RevocationShown
<1>1. ASSUME IInv PROVE RevocationShown
  <2>1. gone \cap ShownActive = {}
    BY <1>1 DEF IInv, EntriesBacked, ShownActive
  <2>2. \A c \in Listed \ ShownActive : record[c] = "revoked"
    BY <1>1 DEF IInv, EntriesBacked, Listed, ShownActive
  <2> QED BY <2>1, <2>2 DEF RevocationShown
<1> QED BY <1>1, Invariance, PTL
=============================================================================
