-------------------------- MODULE DraftValidation ---------------------------
(***************************************************************************)
(* The structural preflight of a rule draft (app/detection/validation.py)  *)
(* and what becomes of a draft it lets through: a rule row with columns of *)
(* limited width and a version whose text every later read decodes.        *)
(*                                                                         *)
(* A draft is judged part by part.  Its conditions are those of            *)
(* ConditionGrammar, followed by the text of an aggregation where there is *)
(* one; its selectors are alike, and so are the selections, fields and     *)
(* values in them, so each is one part and a number of times it is there.  *)
(* A dict, a str or a scalar stands for a list of one, as in the code.     *)
(***************************************************************************)
EXTENDS ConditionGrammar

CONSTANTS
    Plain,          \* a draft with nothing unusual about it
    Options,        \* bound: the other values each part of a draft may have
    MaxEdits,       \* bound: the parts of a draft that differ from Plain
    LexemeLength    \* the characters of a lexeme and what separates it

VARIABLES draft, edits

MaxDraftBytes == 65536
MaxStoredSnapshotChars == 1048576
MaxIntStrDigits == 4300

-----------------------------------------------------------------------------
(* Texts.  The first and the last character of a text are its edge, all      *)
(* others are like one another.  The kinds of characters are what str and    *)
(* unicodedata tell apart; control is DEL, hidden a zero-width character.    *)

NoText == [edge |-> "letter", inner |-> "letter", length |-> 0]

Kinds == {"letter", "astral", "mark", "space", "tab", "nbsp", "hidden", "control", "surrogate"}
Texts == [edge : Kinds, inner : Kinds, length : Nat]

\* What a part of a draft may be; names and timeframe stand for their texts.
IsPart(p, v) ==
    CASE p \in {"title", "suffix"} -> v \in Texts
      [] p = "logsource" ->
            /\ DOMAIN v \subseteq {"category", "product", "service", "definition", "vendor"}
            /\ \A k \in DOMAIN v : v[k] \in Texts
      [] p = "timeframe" -> v \in {"none", "10m", "10x", "number"}
      [] p = "names" -> v \in {"names", "keyword", "punctuated"}
      [] p \in {"selectors", "conditions", "selections", "fields", "values"} -> v \in Nat
      [] p = "key" -> v \in [field : Texts, modifiers : Seq(STRING)]
      [] p = "scalar" ->
            v \in [kind : {"none", "bool", "float", "nonfinite", "nested", "int", "string"},
                   text : Texts, bits : Nat]

Parts == {"title", "logsource", "timeframe", "selectors", "names", "conditions", "suffix",
          "selections", "fields", "key", "values", "scalar"}

ASSUME DraftAssumption ==
    /\ DOMAIN Plain = Parts /\ DOMAIN Options = Parts
    /\ \A p \in Parts : IsPart(p, Plain[p]) /\ \A v \in Options[p] : IsPart(p, v)
    /\ MaxEdits \in Nat /\ LexemeLength \in Nat

Characters(t) == IF t.length = 0 THEN {} ELSE IF t.length <= 2 THEN {t.edge} ELSE {t.edge, t.inner}

Blank == {"space", "tab", "nbsp"}
Invisible == {"tab", "nbsp", "hidden", "control", "surrogate"}
Visible == {"letter", "astral"}

HasVisibleCharacter(t) == Characters(t) \cap Visible # {}
Encodable(t) == "surrogate" \notin Characters(t)

\* What a character costs in JSON: in bytes of UTF-8, and escaped to ASCII.
InUtf8 == [letter |-> 1, astral |-> 4, mark |-> 2, space |-> 1, tab |-> 2, nbsp |-> 2,
           hidden |-> 3, control |-> 1, surrogate |-> 3]
InAscii == [letter |-> 1, astral |-> 12, mark |-> 6, space |-> 1, tab |-> 2, nbsp |-> 6,
            hidden |-> 6, control |-> 6, surrogate |-> 6]

\* The quotes and the separator make four characters.
Size(t, cost) ==
    4 + (IF t.length <= 2 THEN t.length * cost[t.edge]
         ELSE 2 * cost[t.edge] + (t.length - 2) * cost[t.inner])

\* log10(2) is 0.30103.
DecimalDigits(bits) == (bits * 30103) \div 100000 + 1

ScalarSize(v, cost) ==
    CASE v.kind = "string" -> Size(v.text, cost)
      [] v.kind = "int" -> DecimalDigits(v.bits) + 4
      [] OTHER -> 8

\* The log source has no other keys when its size is asked for.
DraftSize(d, cost) ==
    LET entry(k) == IF k \in DOMAIN d.logsource THEN 12 + Size(d.logsource[k], cost) ELSE 0
        field == Size(d.key.field, cost) + 9 * Len(d.key.modifiers)
                 + d.values * ScalarSize(d.scalar, cost)
        item == Len(condition) * LexemeLength + Size(d.suffix, cost)
    IN Size(d.title, cost)
       + entry("category") + entry("product") + entry("service") + entry("definition")
       + d.conditions * item
       + d.selectors * d.selections * d.fields * field

-----------------------------------------------------------------------------
ValidMetadataText(t) ==
    /\ HasVisibleCharacter(t)
    /\ t.edge \notin Blank
    /\ Characters(t) \cap Invisible = {}

\* A field name and its modifiers: "CommandLine|contains".
ValidFieldKey(k) ==
    /\ k.field.length + 9 * Len(k.modifiers) <= 200
    /\ ValidMetadataText(k.field)
    /\ \A i \in DOMAIN k.modifiers : k.modifiers[i] = "contains"

-----------------------------------------------------------------------------
(* Faulty variants of definitions below, for mutation runs. *)

\* Any str is a value.
ValidScalar_AnyText(v) ==
    \/ v.kind \in {"none", "bool", "float"}
    \/ v.kind = "int" /\ v.bits <= 4096
    \/ v.kind = "string" /\ v.text.length <= 2048

\* The identifiers are held to the 200 characters of any other value.
ValidLogsource_Wide(d) ==
    /\ DOMAIN d.logsource \cap {"category", "product", "service"} # {}
    /\ \A k \in DOMAIN d.logsource :
          /\ k \in {"category", "product", "service", "definition"}
          /\ ValidMetadataText(d.logsource[k])
          /\ d.logsource[k].length <= 200

-----------------------------------------------------------------------------
\* Neither a nested value nor a float that is not finite.
ValidScalar(v) ==
    \/ v.kind \in {"none", "bool", "float"}
    \/ v.kind = "int" /\ v.bits <= 4096
    \/ v.kind = "string" /\ v.text.length <= 2048 /\ Encodable(v.text)

ValidTitle(d) == d.title.length \in 1..200 /\ ValidMetadataText(d.title)

ValidLogsource(d) ==
    /\ DOMAIN d.logsource \cap {"category", "product", "service"} # {}
    /\ \A k \in DOMAIN d.logsource :
          /\ k \in {"category", "product", "service", "definition"}
          /\ ValidMetadataText(d.logsource[k])
          /\ d.logsource[k].length <= IF k = "definition" THEN 200 ELSE 100

ValidSelectors(d) == d.selectors \in 1..64 /\ d.names = "names"

ValidConditions(d) ==
    /\ d.conditions \in 1..8
    /\ Len(condition) * LexemeLength + d.suffix.length <= 512
    /\ Characters(d.suffix) \cap Invisible \subseteq {"tab"}
    /\ Accepted
    /\ d.suffix.length > 0 => HasVisibleCharacter(d.suffix)

ValidSelections(d) ==
    /\ d.selections \in 1..64
    /\ d.fields > 0
    /\ ValidFieldKey(d.key)
    /\ d.values \in 1..64
    /\ ValidScalar(d.scalar)

Structural(d) ==
    /\ ValidTitle(d)
    /\ ValidLogsource(d)
    /\ d.timeframe \in {"none", "10m"}
    /\ ValidSelectors(d)
    /\ ValidConditions(d)
    /\ ValidSelections(d)

\* json.dumps and encode take the draft as it is.
Serializable(d) ==
    /\ Encodable(d.title) /\ Encodable(d.suffix) /\ Encodable(d.key.field)
    /\ \A k \in DOMAIN d.logsource : Encodable(d.logsource[k])
    /\ d.scalar.kind = "string" => Encodable(d.scalar.text)
    /\ d.scalar.kind = "int" => DecimalDigits(d.scalar.bits) <= MaxIntStrDigits

\* validate_structure, with the length of what it serializes checked last.
Preflight(d) ==
    IF ~Structural(d) THEN "rejected"
    ELSE IF ~Serializable(d) THEN "raised"
    ELSE IF DraftSize(d, InUtf8) > MaxDraftBytes THEN "rejected" ELSE "accepted"

\* create_rule_draft: the first of these keys the log source has.
LogSource(d) ==
    d.logsource[CHOOSE k \in DOMAIN d.logsource :
                    \/ k = "product"
                    \/ k = "category" /\ "product" \notin DOMAIN d.logsource
                    \/ k = "service" /\ DOMAIN d.logsource \cap {"product", "category"} = {}]

\* VARCHAR(200) and VARCHAR(100).
FitsColumns(d) == d.title.length <= 200 /\ LogSource(d).length <= 100

\* _decode_stored_rule_snapshot: bounded, strict about numbers, and judged again.
DecodesAgain(d) ==
    /\ DraftSize(d, InAscii) <= MaxStoredSnapshotChars
    /\ d.scalar.kind # "nonfinite"
    /\ Preflight(d) = "accepted"

-----------------------------------------------------------------------------
DraftInit == Init /\ draft = Plain /\ edits = 0

\* The author writes the condition of an otherwise plain draft,
WriteCondition == edits = 0 /\ Next /\ UNCHANGED <<draft, edits>>

\* or changes another part of a draft with a condition that is as plain.
Edit(p) ==
    /\ condition \in {<<s>> : s \in Selectors}
    /\ edits < MaxEdits
    /\ draft[p] = Plain[p]
    /\ \E v \in Options[p] : draft' = [draft EXCEPT ![p] = v]
    /\ edits' = edits + 1
    /\ UNCHANGED vars

DraftNext == WriteCondition \/ \E p \in DOMAIN Plain : Edit(p)

DraftSpec == DraftInit /\ [][DraftNext]_<<vars, draft, edits>>

-----------------------------------------------------------------------------
(* Properties *)

\* A draft is refused with a validation error, never with a server error out of
\* the size check at the end: what it serializes can be serialized (comments of
\* _valid_scalar and of the check of the conditions).
NeverRaises == Preflight(draft) # "raised"

\* A draft that passes is stored, and read again for good: it fits the columns of
\* the rule row, and its text, up to six times longer escaped, stays below what
\* the decoder reads and passes every check again (_MAX_STORED_SNAPSHOT_CHARS).
AcceptedDraftsPersist ==
    Preflight(draft) = "accepted" => FitsColumns(draft) /\ DecodesAgain(draft)
=============================================================================
