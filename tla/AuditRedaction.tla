---------------------------- MODULE AuditRedaction ----------------------------
(***************************************************************************)
(* What the audit page shows of old_value and new_value                    *)
(* (audit_service: audit_log_response, sanitize_audit_value,               *)
(* is_sensitive_key): a JSON value without the members whose key is        *)
(* sensitive, at any depth, inside objects and arrays.                     *)
(***************************************************************************)
EXTENDS Naturals, SequencesExt

CONSTANTS
  Key,     \* keys of objects: a word, and whether it is written in capitals
  Secret,  \* the words that is_sensitive_key lists
  Leaf,    \* strings, numbers, booleans and null
  Blank,   \* one of them
  Depth,   \* bound: of the values an entry has
  Width    \* bound: members of an object or elements of an array, by its depth

ASSUME RedactionAssumption ==
  /\ Key \subseteq STRING \X BOOLEAN /\ Secret \subseteq STRING
  /\ Blank \in Leaf
  /\ Depth \in Nat /\ Width \in [1..Depth -> Nat]

\* A JSON value is a scalar, an object (its members by key) or an array.
Scalar(x)  == <<"scalar", x>>
Object(ms) == <<"object", ms>>
Array(xs)  == <<"array", xs>>
Kind(value) == value[1]
Held(value) == value[2]

KeySets(n) == {ks \in SUBSET Key : IsFiniteSet(ks) /\ Cardinality(ks) <= n}
Objects(V, n) == UNION {{Object(ms) : ms \in [ks -> V]} : ks \in KeySets(n)}
Arrays(V, n) == {Array(xs) : xs \in BoundedSeq(V, n)}

\* The values of depth n at most.
Values[n \in 0..Depth] ==
  IF n = 0 THEN {Scalar(x) : x \in Leaf}
  ELSE Values[n - 1] \cup Objects(Values[n - 1], Width[n]) \cup Arrays(Values[n - 1], Width[n])

Value == Values[Depth]

\* Mistake: the key is compared as it is written.
IsSensitiveAsWritten(key) == key \in Secret \X {FALSE}

\* is_sensitive_key: one word of the list, in small or capital letters
IsSensitive(key) == key[1] \in Secret

\* sanitize_audit_value
Sanitize[value \in Value] ==
  CASE Kind(value) = "object" ->
         Object([k \in {key \in DOMAIN Held(value) : ~IsSensitive(key)} |->
                   Sanitize[Held(value)[k]]])
    [] Kind(value) = "array" ->
         Array([i \in DOMAIN Held(value) |-> Sanitize[Held(value)[i]]])
    [] OTHER -> value

\* audit_log_response, for one of the two values of an entry
AuditValue(value) == Sanitize[value]

-----------------------------------------------------------------------------
VARIABLES
  stored,   \* old_value or new_value of an entry
  shown     \* what the response has in its place

redactionVars == <<stored, shown>>

RedactionInit == stored = Scalar(Blank) /\ shown = Scalar(Blank)

\* An entry is shown.
ShowEntry ==
  /\ stored = Scalar(Blank)
  /\ stored' \in Value
  /\ shown' = AuditValue(stored')

RedactionSpec == RedactionInit /\ [][ShowEntry]_redactionVars

-----------------------------------------------------------------------------
(* Properties *)

\* The nodes of a value: the steps that lead to each (the members and elements
\* it lies in), its kind, and what it holds if it is a scalar.
Node(path, kind, leaf) == [path |-> path, kind |-> kind, leaf |-> leaf]
Under(step, node) == [node EXCEPT !.path = <<step>> \o @]

Nodes[v \in Value] ==
  IF Kind(v) = "scalar" THEN {Node(<<>>, "scalar", Held(v))}
  ELSE {Node(<<>>, Kind(v), Blank)}
         \cup UNION {{Under(<<Kind(v), k>>, node) : node \in Nodes[Held(v)[k]]} :
                       k \in DOMAIN Held(v)}

\* Some step leads into a member whose key is a word of the list.
Concealed(path) ==
  \E i \in DOMAIN path : path[i][1] = "object" /\ path[i][2][1] \in Secret

\* Exactly the nodes below a sensitive key are left out of a response, and
\* every other one keeps its place and its value: no secret is shown however
\* deep it lies, and nothing else of the entry is lost.
OnlySecretsAreConcealed ==
  Nodes[shown] = {node \in Nodes[stored] : ~Concealed(node.path)}
=============================================================================
