----------------------------- MODULE AmfObject ------------------------------
(***************************************************************************)
(* Building an AMF object by the push functions of amf_object.c, one by    *)
(* one or through amf_push_simple, and its trip over the wire: amf_write   *)
(* and amf_read with the AMF0 encoder and decoder below them.              *)
(*                                                                         *)
(* The tree of values is kept flat, in the order of the pushes: a node of  *)
(* depth d belongs to the last node of depth d - 1 before it, and the open *)
(* containers are the last nodes of their depths.  The wire is a sequence  *)
(* of tokens, a property name or a value with its type marker; the content *)
(* of strings and numbers is left out, the width of a length is not.       *)
(* A member that amf_push_assoc_end has dropped behind others keeps its    *)
(* place, in the slot "gone", with all that lies in it: the memory stays,  *)
(* and so do the references to it.                                         *)
(*                                                                         *)
(* Left out: the ownership of memory (the reference count of the object,   *)
(* the single slot of amf_push_string_alloc, failing allocations), and     *)
(* calls that the header calls undefined behaviour: a member pushed        *)
(* outside of all containers and an end without a container.               *)
(***************************************************************************)
EXTENDS Integers, Sequences, SequencesExt, FiniteSets

CONSTANTS
    Plain,      \* the types of values without content that are pushed
    Lengths,    \* the lengths of the strings that are pushed, in bytes
    Counts,     \* what amf_push_ecma_start is told to expect
    Names,      \* names of members
    MaxNodes,   \* bound: values of an object
    MaxDepth    \* bound: containers open at a time

ASSUME AmfAssumption ==
    /\ Plain \subseteq {"double", "integer", "boolean", "null", "undefined", "date"}
    /\ Lengths \subseteq Nat /\ Counts \subseteq Nat
    /\ MaxNodes \in Nat /\ MaxDepth \in Nat

VARIABLES
    amf,    \* the amf_t: nodes, depth, member_ready and ref_table
    list    \* the depth inside a running amf_push_simple, or Outside

vars == <<amf, list>>

Outside == -1
Unlimited == 1000       \* stands for UINT32_MAX
NoName == "none"

\* A value: its type, and what its type adds (the length of a string, the
\* expected members of an array, the number of a reference and what it found).
Value(type, arg, to) == [type |-> type, arg |-> arg, to |-> to]
Of(type) == Value(type, 0, 0)

\* given is a history: a value was pushed for this name.  A member without one
\* is undefined.
Node(depth, slot, name, value, given) ==
    [depth |-> depth, slot |-> slot, name |-> name, value |-> value, given |-> given]

Empty == [nodes |-> << >>, depth |-> 0, ready |-> FALSE, refs |-> << >>]

Done(a) == [obj |-> a, err |-> "none"]
Fails(a, err) == [obj |-> a, err |-> err]

IsContainer(v) == v.type \in {"object", "array"}

-----------------------------------------------------------------------------
(***************************************************************************)
(* The push functions: a value goes into the open container, under the     *)
(* name pushed before it.                                                  *)
(***************************************************************************)
Children(nodes, i) ==
    {j \in i + 1..Len(nodes) : /\ nodes[j].depth = nodes[i].depth + 1
                               /\ \A k \in i + 1..j : nodes[k].depth > nodes[i].depth}
Slotted(nodes, i, slot) == {j \in Children(nodes, i) : nodes[j].slot = slot}
Latest(S) == IF S = {} THEN 0 ELSE CHOOSE i \in S : \A j \in S : j <= i

\* amf_v_get_object: from the last item down by last children.
Open(a) ==
    LET down[d \in 1..a.depth] ==
            IF d = 1 THEN Latest({i \in 1..Len(a.nodes) : a.nodes[i].depth = 0})
            ELSE Latest(Children(a.nodes, down[d - 1]))
    IN  down[a.depth]

\* amf_v_push_member: which vector the next member of a container is put in.
SlotOf(nodes, i) ==
    CASE nodes[i].value.type = "object" -> "member"
      [] Cardinality(Slotted(nodes, i, "assoc")) < nodes[i].value.arg -> "assoc"
      [] OTHER -> "ordinal"

PushMember(a, name) ==
    IF a.ready THEN Fails(a, "incomplete")
    ELSE Done([a EXCEPT !.ready = TRUE,
                        !.nodes = Append(@, Node(a.depth, SlotOf(@, Open(a)), name,
                                                 Of("undefined"), FALSE))])

\* PUSH_PREP and amf_push_item.
Push(a, v) ==
    IF a.depth > 0 /\ ~a.ready THEN Fails(a, "need_name")
    ELSE IF a.depth = 0
         THEN Done([a EXCEPT !.nodes = Append(@, Node(0, "item", NoName, v, TRUE))])
         ELSE LET n == Latest(Children(a.nodes, Open(a)))
              IN  Done([a EXCEPT !.ready = FALSE,
                                 !.nodes[n].value = v, !.nodes[n].given = TRUE])

\* Mutant: the depth is raised before the name is asked for.
PushStartEarly(a, v) ==
    LET pushed == Push(a, v)
        n == IF a.depth = 0 THEN Len(pushed.obj.nodes)
             ELSE Latest(Children(a.nodes, Open(a)))
    IN  IF pushed.err # "none" THEN Fails([a EXCEPT !.depth = @ + 1], pushed.err)
        ELSE Done([pushed.obj EXCEPT !.depth = @ + 1, !.refs = Append(@, n)])

PushStart(a, v) ==
    LET pushed == Push(a, v)
        n == IF a.depth = 0 THEN Len(pushed.obj.nodes)
             ELSE Latest(Children(a.nodes, Open(a)))
    IN  IF pushed.err # "none" THEN pushed
        ELSE Done([pushed.obj EXCEPT !.depth = @ + 1, !.refs = Append(@, n)])

PushReference(a, ref) ==
    Push(a, Value("reference", ref, IF ref < Len(a.refs) THEN a.refs[ref + 1] ELSE 0))

\* amf_push_object_end: a name that still waits for its value goes.
PushEnd(a) ==
    Done([a EXCEPT !.depth = @ - 1, !.ready = FALSE,
                   !.nodes = IF a.ready THEN Front(@) ELSE @])

\* Mutant: no member goes, also when its name waits for a value.
WithoutLastKeeping(nodes, n) == nodes

\* The associative part loses its last member: the name that waits, or, when an
\* ordinal name waits, the member before the ordinal ones.
WithoutLast(nodes, n) ==
    LET last == Latest(Slotted(nodes, n, "assoc"))
    IN  CASE last = 0 -> nodes
          [] last = Len(nodes) -> Front(nodes)
          [] OTHER -> [nodes EXCEPT ![last].slot = "gone"]

\* Mutant: the last member goes whether or not it has its value.
PushAssocEndPopping(a) ==
    LET n == Open(a)
        kept == WithoutLast(a.nodes, n)
    IN  IF a.depth = 0 \/ a.nodes[n].value.type # "array" THEN Fails(a, "invalid")
        ELSE Done([a EXCEPT !.ready = FALSE,
                            !.nodes = [kept EXCEPT ![n].value.arg =
                                         Cardinality(Slotted(kept, n, "assoc"))]])

\* amf_push_assoc_end: what follows is ordinal.  No name waits any more.
PushAssocEnd(a) ==
    LET n == Open(a)
        kept == IF a.ready THEN WithoutLast(a.nodes, n) ELSE a.nodes
    IN  IF a.depth = 0 \/ a.nodes[n].value.type # "array" THEN Fails(a, "invalid")
        ELSE Done([a EXCEPT !.ready = FALSE,
                            !.nodes = [kept EXCEPT ![n].value.arg =
                                         Cardinality(Slotted(kept, n, "assoc"))]])

-----------------------------------------------------------------------------
(***************************************************************************)
(* The wire.  amf_write_value recurses; over the flat tree a container     *)
(* ends where the depth falls.  What is gone is not written.               *)
(***************************************************************************)
Gone(nodes, i) ==
    \E j \in 1..i : /\ nodes[j].slot = "gone"
                    /\ \A k \in j + 1..i : nodes[k].depth > nodes[j].depth
There(nodes) == {i \in 1..Len(nodes) : ~Gone(nodes, i)}
Remaining(nodes) ==
    LET order == SetToSortSeq(There(nodes), <)
    IN  [k \in 1..Len(order) |-> nodes[order[k]]]

Token(tok, name, arg) == [tok |-> tok, name |-> name, arg |-> arg]
NameToken(name) == Token("name", name, 0)
EndTokens == <<NameToken(""), Token("end", NoName, 0)>>

\* A short string has a length of 16 bits, which ntoh_read_s reads as signed.
Signed16(n) == IF n % 65536 >= 32768 THEN (n % 65536) - 65536 ELSE n % 65536

\* Mutant: the count an array was started with is written.
EncodeStale(nodes, i) ==
    LET v == nodes[i].value
    IN  CASE v.type = "integer" -> Token("double", NoName, 0)
          [] v.type = "string" /\ v.arg > 65535 -> Token("long_string", NoName, v.arg)
          [] OTHER -> Token(v.type, NoName, v.arg)

\* amf_write_value and the amf0_write functions.
Encode(nodes, i) ==
    LET v == nodes[i].value
    IN  CASE v.type = "integer" -> Token("double", NoName, 0)
          [] v.type = "string" /\ v.arg > 65535 -> Token("long_string", NoName, v.arg)
          [] v.type = "array" ->
                Token("array", NoName, Cardinality(Slotted(nodes, i, "assoc")))
          [] OTHER -> Token(v.type, NoName, v.arg)

Ends(nodes, i) ==
    LET below == nodes[i].depth + IF IsContainer(nodes[i].value) THEN 1 ELSE 0
        next  == IF i = Len(nodes) THEN 0 ELSE nodes[i + 1].depth
    IN  FlattenSeq([k \in 1..below - next |-> EndTokens])

\* amf_write into a buffer of the size it asked for.
Write(a) ==
    LET nodes == Remaining(a.nodes)
    IN  FlattenSeq([i \in 1..Len(nodes) |->
            (IF nodes[i].depth > 0 THEN <<NameToken(nodes[i].name)>> ELSE << >>)
            \o <<Encode(nodes, i)>> \o Ends(nodes, i)])

\* The second half of an iteration of amf_read: the value behind a name.
Decode(a, t) ==
    CASE t.tok = "name" -> Fails(a, "invalid")
      [] t.tok \in {"object", "array"} -> PushStart(a, Value(t.tok, t.arg, 0))
      [] t.tok = "end" ->
            IF a.depth = 0 THEN Fails(a, "invalid") ELSE PushEnd(a)
      [] t.tok = "reference" -> PushReference(a, Signed16(t.arg))
      [] t.tok = "long_string" -> Push(a, Value("string", t.arg, 0))
      [] t.tok = "string" ->
            IF Signed16(t.arg) < 0 THEN Fails(a, "oom") ELSE Push(a, Value("string", t.arg, 0))
      [] OTHER -> Push(a, Value(t.tok, t.arg, 0))

(***************************************************************************)
(* amf_read takes tokens while there are any.  Inside of a container every *)
(* iteration starts with a name, also the first one of a call.  When a     *)
(* name is due and a value is there, its bytes pass for a name or for the  *)
(* beginning of one: either way the call ends with AMF_ERR_INCOMPLETE.     *)
(***************************************************************************)
\* Mutant: a call starts with a value.
ReadTokenFirstUnnamed(st, t) ==
    IF st.err # "none" THEN st
    ELSE IF st.obj.depth > 0 /\ ~st.named /\ st.read > 0
    THEN IF t.tok # "name" THEN [st EXCEPT !.err = "incomplete"]
         ELSE LET r == PushMember(st.obj, t.name)
              IN  [obj |-> r.obj, err |-> r.err, read |-> st.read + 1, named |-> r.err = "none"]
    ELSE LET r == Decode(st.obj, t)
         IN  [obj |-> r.obj, err |-> r.err, read |-> st.read + 1, named |-> FALSE]

ReadToken(st, t) ==
    IF st.err # "none" THEN st
    ELSE IF st.obj.depth > 0 /\ ~st.named
    THEN IF t.tok # "name" THEN [st EXCEPT !.err = "incomplete"]
         ELSE LET r == PushMember(st.obj, t.name)
              IN  [obj |-> r.obj, err |-> r.err, read |-> st.read + 1, named |-> r.err = "none"]
    ELSE LET r == Decode(st.obj, t)
         IN  [obj |-> r.obj, err |-> r.err, read |-> st.read + 1, named |-> FALSE]

Read(a, wire) ==
    LET st == FoldLeft(ReadToken, [obj |-> a, err |-> "none", read |-> 0, named |-> FALSE], wire)
    IN  IF st.named THEN [st EXCEPT !.err = "incomplete"] ELSE st

-----------------------------------------------------------------------------
(***************************************************************************)
(* The calls of an application, and the arguments of amf_push_simple one   *)
(* by one.  An argument that fails ends the list, whatever is open.        *)
(***************************************************************************)
Init == amf = Empty /\ list = Outside

Room == Len(amf.nodes) < MaxNodes
Deeper == amf.depth < MaxDepth

Direct(result) == list = Outside /\ amf' = result.obj /\ UNCHANGED list

AddMember == amf.depth > 0 /\ Room /\ \E name \in Names : Direct(PushMember(amf, name))
AddPlain == Room /\ \E type \in Plain : Direct(Push(amf, Of(type)))
AddString == Room /\ \E n \in Lengths : Direct(Push(amf, Value("string", n, 0)))
AddXml == Room /\ \E n \in Lengths : Direct(Push(amf, Value("xml", n, 0)))
AddReference == Room /\ \E ref \in 0..Len(amf.refs) : Direct(PushReference(amf, ref))
StartObject == Room /\ Deeper /\ Direct(PushStart(amf, Of("object")))
StartArray ==
    Room /\ Deeper /\ \E n \in Counts : Direct(PushStart(amf, Value("array", n, 0)))
End == amf.depth > 0 /\ Direct(PushEnd(amf))

BeginList == list = Outside /\ list' = 0 /\ UNCHANGED amf

\* amf_push_simple_list_memb: outside of the containers the list has opened
\* there is no name.
Named(name) == IF list = 0 THEN Done(amf) ELSE PushMember(amf, name)

Listed(result, depth) ==
    /\ list # Outside
    /\ amf' = result.obj
    /\ list' = IF result.err = "none" THEN depth ELSE Outside

\* The second push of two, which is not tried when the first one fails.
After(first, second) == IF first.err = "none" THEN second ELSE first

ListPlain ==
    /\ Room
    /\ \E name \in Names, type \in Plain \ {"undefined", "date"} :
          Listed(After(Named(name), Push(Named(name).obj, Of(type))), list)
ListString ==
    /\ Room
    /\ \E name \in Names, n \in Lengths :
          Listed(Push(Named(name).obj, Value("string", n, 0)), list)
ListUndefined == Room /\ Listed(Push(amf, Of("undefined")), list)
ListObject ==
    /\ Room /\ Deeper
    /\ \E name \in Names :
          Listed(After(Named(name), PushStart(Named(name).obj, Of("object"))), list + 1)
ListArray ==
    /\ Room /\ Deeper
    /\ \E name \in Names :
          Listed(After(Named(name), PushStart(Named(name).obj, Value("array", Unlimited, 0))),
                 list + 1)
ListOrdinals == Listed(PushAssocEnd(amf), list)
ListEnd == list > 0 /\ Listed(After(PushMember(amf, ""), PushEnd(PushMember(amf, "").obj)), list - 1)
StopList == list # Outside /\ list' = Outside /\ UNCHANGED amf

Next ==
    \/ AddMember \/ AddPlain \/ AddString \/ AddXml \/ AddReference
    \/ StartObject \/ StartArray \/ End
    \/ BeginList \/ ListPlain \/ ListString \/ ListUndefined \/ ListObject \/ ListArray
    \/ ListOrdinals \/ ListEnd \/ StopList

Spec == Init /\ [][Next]_vars

-----------------------------------------------------------------------------
(***************************************************************************)
(* Properties                                                              *)
(***************************************************************************)
\* An object as the other end is to see it: numbers are doubles, arrays expect
\* what they have, every name has a value, every container has ended, and what
\* is gone is not there.
Settled(a) ==
    LET nodes == Remaining(a.nodes)
        Now(i) == IF i = 0 THEN 0 ELSE Cardinality({j \in There(a.nodes) : j <= i})
    IN  [nodes |-> [i \in 1..Len(nodes) |->
                      [nodes[i] EXCEPT
                         !.given = TRUE,
                         !.value.type = IF @ = "integer" THEN "double" ELSE @,
                         !.value.to = Now(@),
                         !.value.arg = IF nodes[i].value.type = "array"
                                       THEN Cardinality(Slotted(nodes, i, "assoc")) ELSE @]],
         depth |-> 0, ready |-> FALSE, refs |-> [k \in DOMAIN a.refs |-> Now(a.refs[k])]]

\* Type invariant: the reader of the flat tree finds an open container for
\* every level of depth (amf_v_get_object never returns a null pointer).
TypeOK ==
    /\ amf.depth \in 0..MaxDepth /\ amf.ready \in BOOLEAN
    /\ Len(amf.nodes) <= MaxNodes
    /\ amf.refs \in Seq(1..Len(amf.nodes))
    /\ list \in Outside..MaxDepth
    /\ amf.depth > 0 => Open(amf) > 0 /\ IsContainer(amf.nodes[Open(amf)].value)

\* A member without a value is the last one of the open container, and only
\* while member_ready says so: neither a failed call, nor the end of a list or
\* of a container leaves a name behind (amf_push_member, amf_push_object_end).
\* The exception are ordinal names, which amf_push_assoc_end may leave.
OnlyOrdinalsAreLeft ==
    /\ \A i \in 1..Len(amf.nodes) :
          amf.nodes[i].given \/ (amf.ready /\ i = Len(amf.nodes)) \/ amf.nodes[i].slot = "ordinal"
    /\ amf.ready => ~amf.nodes[Len(amf.nodes)].given

\* Whatever was built, finished or not, amf_read makes the same tree of what
\* amf_write wrote, with members in the same part of an array and references
\* to the same containers; it takes all of it and ends outside of containers.
\* References are counted over all containers that were started, so this says
\* nothing of an object that has lost one to amf_push_assoc_end.
RoundTrip ==
    LET wire == Write(amf)
        st   == Read(Empty, wire)
    IN  Range(amf.refs) \subseteq There(amf.nodes) =>
            st.err = "none" /\ st.read = Len(wire) /\ st.obj = Settled(amf)

\* When a buffer ends between two members or values, amf_read can be called
\* with what follows it and arrives at the same tree as in one piece.
ResumesBetweenMembers ==
    LET wire == Write(amf)
    IN  \A cut \in 0..Len(wire) :
            LET first == Read(Empty, SubSeq(wire, 1, cut))
                rest  == Read(first.obj, SubSeq(wire, first.read + 1, Len(wire)))
            IN  ~first.named => rest.obj = Read(Empty, wire).obj /\ rest.err = "none"

\* amf_object.h:173 on AMF_ERR_INCOMPLETE: "it is safe to advance the buffer
\* by the amount stored in read, fill it with more data, and call this
\* function again", wherever the buffer ended.
ResumesAnywhere ==
    LET wire == Write(amf)
    IN  \A cut \in 0..Len(wire) :
            LET first == Read(Empty, SubSeq(wire, 1, cut))
                rest  == Read(first.obj, SubSeq(wire, first.read + 1, Len(wire)))
            IN  first.err \in {"none", "incomplete"} => rest.err = "none"

\* A step that gives up on a name and leaves it: what amf_push_assoc_end does to
\* an ordinal name that waits for its value.
LeavesName ==
    /\ amf.ready /\ ~amf'.ready
    /\ Len(amf'.nodes) = Len(amf.nodes) /\ ~amf'.nodes[Len(amf.nodes)].given

\* A value that was pushed stays what it is, where it is and under its name,
\* whatever is pushed or ended later; only the count of an array changes.  One
\* call takes it away: when an ordinal name is left without a value, the last
\* associative member of the same array goes.
GivenStays ==
    [][\A i \in 1..Len(amf.nodes) :
          amf.nodes[i].given =>
              /\ i \in 1..Len(amf'.nodes)
              /\ LET was == [amf.nodes[i] EXCEPT !.value.arg = 0]
                     is  == [amf'.nodes[i] EXCEPT !.value.arg = 0]
                 IN  \/ is = was
                     \/ /\ LeavesName /\ i = Latest(Slotted(amf.nodes, Open(amf), "assoc"))
                        /\ is = [was EXCEPT !.slot = "gone"]]_vars

\* amf_push_object_end drops the name that waits and nothing else; read of
\* amf_push_assoc_end too, it would say that no value is ever taken away.
GivenNeverTaken ==
    [][\A i \in 1..Len(amf.nodes) :
          amf.nodes[i].given => i \in 1..Len(amf'.nodes) /\ amf'.nodes[i].slot = amf.nodes[i].slot]_vars
=============================================================================
