------------------------------- MODULE Listing -------------------------------
(***************************************************************************)
(* GET /login/v1/m2m-clients: ListClients of dynamo/m2m.go pages through   *)
(* the index GSI1 while clients are created and revoked.  The index is     *)
(* written after the table, item by item, and every Query may be answered  *)
(* by another copy of it; a page ends wherever DynamoDB cuts it, and its   *)
(* LastEvaluatedKey is where the next one starts.                          *)
(*                                                                         *)
(* A client is the rank of its clientId, the order of GSI1SK.  Records     *)
(* written by hand as README.md describes carry no GSI1PK and are never    *)
(* in the index.  What else a record holds is copied to the answer and     *)
(* left out; how it is written is in MachineClients.                       *)
(***************************************************************************)
EXTENDS Integers, Sequences, FiniteSets

CONSTANTS NumClients,  \* clientIds, in order
          ByHand,      \* those whose record is written by hand
          Copies       \* copies of the index that answer queries

Clients == 1 .. NumClients

ASSUME ListingAssumption ==
  /\ NumClients \in Nat \ {0}
  /\ ByHand \subseteq Clients
  /\ Copies # {}

VARIABLES record,   \* the CLIENT# items of the table
          index,    \* what each copy of GSI1 holds of them
          pc,       \* the handler of the listing
          clients,  \* the clients it has collected
          startKey, \* ExclusiveStartKey of its next query
          indexed,  \* history: clients in every copy when the listing began
          gone      \* history: those of them every copy showed as revoked

tableVars == <<record, index>>
listVars == <<pc, clients, startKey, indexed, gone>>
vars == <<record, index, pc, clients, startKey, indexed, gone>>

-----------------------------------------------------------------------------
NoKey == 0

States == {"none", "active", "revoked"}

Init ==
  /\ record = [c \in Clients |-> IF c \in ByHand THEN "active" ELSE "none"]
  /\ index = [copy \in Copies |-> [c \in Clients |-> "none"]]
  /\ pc = "idle"
  /\ clients = <<>>
  /\ startKey = NoKey
  /\ indexed = {}
  /\ gone = {}

-----------------------------------------------------------------------------
\* CreateClient: the item and its index keys, if there is no record yet.
Create(c) ==
  /\ c \notin ByHand
  /\ record[c] = "none"
  /\ record' = [record EXCEPT ![c] = "active"]
  /\ UNCHANGED <<index, listVars>>

\* DeactivateClient, by hand or not.
Revoke(c) ==
  /\ record[c] = "active"
  /\ record' = [record EXCEPT ![c] = "revoked"]
  /\ UNCHANGED <<index, listVars>>

\* Mutant: CreateClient does not set GSI1PK.
NeverIndexed(c) == FALSE

HasIndexKeys(c) == c \notin ByHand

\* One copy of the index catches up with one item.
Propagate(copy, c) ==
  /\ HasIndexKeys(c)
  /\ index[copy][c] # record[c]
  /\ index' = [index EXCEPT ![copy][c] = record[c]]
  /\ UNCHANGED <<record, listVars>>

-----------------------------------------------------------------------------
\* An admin asks for the list.
List ==
  /\ pc = "idle"
  /\ pc' = "query"
  /\ indexed' = {c \in Clients : \A copy \in Copies : index[copy][c] # "none"}
  /\ gone' = {c \in Clients : \A copy \in Copies : index[copy][c] = "revoked"}
  /\ UNCHANGED <<tableVars, clients, startKey>>

\* What a query finds past its start key.
Found(copy) == {c \in Clients : index[copy][c] # "none" /\ c > startKey}

\* A set of clients in the order of GSI1SK.
InOrder(S) ==
  {page \in [1 .. Cardinality(S) -> S] :
     /\ \A i, j \in DOMAIN page : i < j => page[i] < page[j]
     /\ \A c \in S : \E i \in DOMAIN page : page[i] = c}

\* Mutant: every listed client is shown as active.
AlwaysActive(state) == TRUE

\* machineClientFromItem and provisionClientToModel.
Active(state) == state = "active"

Items(copy, page) ==
  [i \in DOMAIN page |-> [id |-> page[i], active |-> Active(index[copy][page[i]])]]

\* Mutant: the next query starts where this one did.
SameStart(last) == startKey

\* Mutant: the next query starts after the item that follows.
SkipsOne(last) == last + 1

NextStart(last) == last

\* Mutant: the loop ends with the first page.
FirstPageOnly(last) == TRUE

NoMorePages(last) == last = NoKey

\* One round of the loop of ListClients: a query of some copy, answered with
\* everything it found (no LastEvaluatedKey) or cut after some item.
Query(copy, last) ==
  /\ pc = "query"
  /\ last \in Found(copy) \cup {NoKey}
  /\ \E page \in InOrder({c \in Found(copy) : last = NoKey \/ c <= last}) :
       clients' = clients \o Items(copy, page)
  /\ IF NoMorePages(last)
       THEN pc' = "answered" /\ startKey' = NoKey
       ELSE startKey' = NextStart(last) /\ UNCHANGED pc
  /\ UNCHANGED <<tableVars, indexed, gone>>

\* A query fails, its items do not unmarshal, or Lambda ends the request:
\* the pages so far are thrown away.
Fail ==
  /\ pc = "query"
  /\ pc' = "error"
  /\ clients' = <<>>
  /\ startKey' = NoKey
  /\ UNCHANGED <<tableVars, indexed, gone>>

\* The admin has the answer.
Receive ==
  /\ pc \in {"answered", "error"}
  /\ pc' = "idle"
  /\ clients' = <<>>
  /\ indexed' = {}
  /\ gone' = {}
  /\ UNCHANGED <<tableVars, startKey>>

Queries == \E copy \in Copies, last \in Clients \cup {NoKey} : Query(copy, last)

Next ==
  \/ \E c \in Clients : Create(c) \/ Revoke(c)
  \/ \E copy \in Copies, c \in Clients : Propagate(copy, c)
  \/ List \/ Queries \/ Fail \/ Receive

Spec == Init /\ [][Next]_vars

(***************************************************************************)
(* Fairness: the index catches up, a handler goes on, and an admin keeps   *)
(* asking.  Nobody has to create or revoke anything.                       *)
(***************************************************************************)
Fairness ==
  /\ \A copy \in Copies : WF_vars(\E c \in Clients : Propagate(copy, c))
  /\ WF_vars(List \/ Queries \/ Receive)

FairSpec == Spec /\ Fairness

-----------------------------------------------------------------------------
\* The table, the index and the handler keep their shape.
TypeOK ==
  /\ record \in [Clients -> States]
  /\ index \in [Copies -> [Clients -> States]]
  /\ pc \in {"idle", "query", "answered", "error"}
  /\ clients \in Seq([id : Clients, active : BOOLEAN])
  /\ startKey \in Clients \cup {NoKey}
  /\ indexed \subseteq Clients
  /\ gone \subseteq indexed

\* However the pages are cut, from whichever copies they come and whatever is
\* created between them, the list is in the order of clientIds and names no
\* client twice (ListClients: "ordered by clientId").
ListedInOrder ==
  \A i, j \in DOMAIN clients : i < j => clients[i].id < clients[j].id

Listed == {clients[i].id : i \in DOMAIN clients}
ShownActive == {clients[i].id : i \in {n \in DOMAIN clients : clients[n].active}}

\* An answered list leaves no client out that every copy of the index held when
\* the listing began, and invents none (ListClients).
ListedComplete ==
  pc = "answered" =>
    /\ indexed \subseteq Listed
    /\ \A c \in Listed : record[c] # "none"

\* A client whose revocation had reached the index is not shown as active, and
\* one that is shown as inactive is revoked (ListClients, DeactivateClient).
RevocationShown ==
  pc = "answered" =>
    /\ gone \cap ShownActive = {}
    /\ \A c \in Listed \ ShownActive : record[c] = "revoked"

\* A client made through the API is on the list in the end, as revoked once it
\* is, if an admin keeps asking and the listings do not fail for ever
\* (CreateClient's index keys).
EventuallyListed ==
  \A c \in Clients \ ByHand :
    record[c] # "none" ~>
      \/ pc = "error"
      \/ /\ pc = "answered"
         /\ c \in Listed
         /\ record[c] = "revoked" => c \notin ShownActive
=============================================================================
