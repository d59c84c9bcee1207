------------------------- MODULE AnalysisRepository -------------------------
(***************************************************************************)
(* infrastructure/storage/analysis_repository.go: one record per entity in *)
(* the primary store (Badger) and one document per entity in the search    *)
(* index (Bluge), written one after the other.                             *)
(*                                                                         *)
(* The main key analysis:{namespace}:{time}:{entity} and its pointer       *)
(* idx:msg:{entity} are written in one transaction, and the writers keep   *)
(* the namespace and the time of an entity, so the two keys are one entry  *)
(* here.  Of a record the model keeps the namespace and whether it holds   *)
(* the scan's data only or also the specialists' results.                  *)
(***************************************************************************)
EXTENDS Integers, FiniteSets

CONSTANT Entities

VARIABLES
  badger,  \* badger[e]: the record of e in the primary store
  bluge    \* bluge[e]: the document of e in the search index

repoVars == <<badger, bluge>>

Namespace == "file-room"  \* the only namespace the sink writes
NoRecord == [namespace |-> "", content |-> ""]
Scan == [namespace |-> Namespace, content |-> "scan"]
Enriched == [namespace |-> Namespace, content |-> "enriched"]
Record == {NoRecord, Scan, Enriched}

RepoInit ==
  /\ badger = [e \in Entities |-> NoRecord]
  /\ bluge = [e \in Entities |-> NoRecord]

\* The store once every entity of the set es has the record r.
Put(store, es, r) == [e \in Entities |-> IF e \in es THEN r ELSE store[e]]

\* Mutant: the transaction is not committed.
WriteBadgerNot(es, r) == UNCHANGED repoVars

\* First half of Store and StoreBatch: the transaction, or the write batch.
WriteBadger(es, r) == badger' = Put(badger, es, r) /\ UNCHANGED bluge

\* Second half: the documents replace those with the same identifier.
WriteBluge(es, r) == bluge' = Put(bluge, es, r) /\ UNCHANGED badger

\* FetchFullByEntityId finds a record and it belongs to the namespace.
Fetchable(namespace, e) == badger[e] # NoRecord /\ badger[e].namespace = namespace

\* Documents a query on the namespace matches; no namespace, no filter.
SearchPaginated(namespace) ==
  {e \in Entities : bluge[e] # NoRecord /\ (namespace = "" \/ bluge[e].namespace = namespace)}

\* searchAndHydrate: a match that cannot be fetched is dropped.
SearchAndHydrate(namespace) == {e \in SearchPaginated(namespace) : Fetchable(namespace, e)}

RepoTypeOK ==
  /\ badger \in [Entities -> Record]
  /\ bluge \in [Entities -> Record]
=============================================================================
