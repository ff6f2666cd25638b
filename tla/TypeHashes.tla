------------------------------ MODULE TypeHashes ------------------------------
(***************************************************************************)
(* The canonical form of a type description, of which the type hash is the *)
(* SHA-256 (src/zenoh_backend/type_description.rs).  SHA-256 and the JSON  *)
(* text are taken as injective: the canonical form stands for the hash.    *)
(* Type names are numbers here, so that they can be sorted.                *)
(***************************************************************************)
EXTENDS Naturals, Sequences, SequencesExt

NESTED_TYPE == 1
ARRAY_OFFSET == 48
BOUNDED_SEQUENCE_OFFSET == 96

FieldType(id, capacity, nested) == [type_id |-> id, capacity |-> capacity, nested |-> nested]
Scalar(id) == FieldType(id, 0, 0)
Array(id, capacity) == FieldType((id + ARRAY_OFFSET) % 256, capacity, 0)
Nested(name) == FieldType(NESTED_TYPE, 0, name)
NestedBoundedSequence(name, capacity) ==
  FieldType(NESTED_TYPE + BOUNDED_SEQUENCE_OFFSET, capacity, name)

Field(name, type, default) == [name |-> name, type |-> type, default |-> default]
Individual(name, fields) == [type_name |-> name, fields |-> fields]
Description(top, refs) == [top |-> top, refs |-> refs]

\* What is written of a field leaves out its default.
WriteField(f) == <<f.name, f.type>>
WriteIndividual(d) == <<d.type_name, [i \in DOMAIN d.fields |-> WriteField(d.fields[i])]>>

\* The stable sort by name: a description comes after all that are before it.
ComesBefore(refs, i, j) ==
  \/ refs[i].type_name < refs[j].type_name
  \/ refs[i].type_name = refs[j].type_name /\ i < j
SortByName(refs) ==
  [k \in DOMAIN refs |-> refs[CHOOSE i \in DOMAIN refs :
     Cardinality({j \in DOMAIN refs : ComesBefore(refs, j, i)}) = k - 1]]

HashableJson(d) ==
  LET refs == SortByName(d.refs) IN
  << WriteIndividual(d.top), [i \in DOMAIN refs |-> WriteIndividual(refs[i])] >>

\* service is its name and the names of its three messages.
ServiceDescription(service, request, response, event, refs) ==
  Description(Individual(service.name,
                << Field("request_message", Nested(service.request), ""),
                   Field("response_message", Nested(service.response), ""),
                   Field("event_message", Nested(service.event), "") >>),
              <<request, response, event>> \o refs)

-----------------------------------------------------------------------------
(* Two descriptions hash alike exactly when they describe the same types,  *)
(* in whatever order the referenced types are listed and whatever the      *)
(* defaults of the fields: a peer lists them in its own order.             *)

Written(refs) == {WriteIndividual(refs[i]) : i \in DOMAIN refs}
HashesAgree(a, b) ==
  HashableJson(a) = HashableJson(b)
    <=> /\ WriteIndividual(a.top) = WriteIndividual(b.top)
        /\ Written(a.refs) = Written(b.refs)
=============================================================================
