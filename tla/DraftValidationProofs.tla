----------------------- MODULE DraftValidationProofs ------------------------
(***************************************************************************)
(* Proofs about the structural checks of DraftValidation, for every draft  *)
(* and every condition, of any size: what they let through can be          *)
(* serialized, is stored, and is read again.                               *)
(***************************************************************************)
EXTENDS DraftValidation, ConditionGrammarProofs, TLAPS

\* Every part of d is one the author may write.
IsDraft(d) == DOMAIN d = Parts /\ \A p \in Parts : IsPart(p, d[p])

\* The inductive invariant: a draft of texts and numbers, and a condition of
\* lexemes.
IInv == condition \in Seq(Lexemes) /\ IsDraft(draft)

-----------------------------------------------------------------------------
\* The parts of a draft, one by one.
LEMMA DraftParts ==
    ASSUME NEW d, IsDraft(d)
    PROVE  /\ d.title \in Texts /\ d.suffix \in Texts
           /\ \A k \in DOMAIN d.logsource : d.logsource[k] \in Texts
           /\ d.selectors \in Nat /\ d.conditions \in Nat /\ d.selections \in Nat
           /\ d.fields \in Nat /\ d.values \in Nat
           /\ d.key.field \in Texts /\ d.key.modifiers \in Seq(STRING)
           /\ d.scalar.text \in Texts /\ d.scalar.bits \in Nat
  <1>1. IsPart("title", d.title) /\ IsPart("suffix", d.suffix)
    BY DEF IsDraft, Parts
  <1>2. IsPart("logsource", d.logsource)
    BY DEF IsDraft, Parts
  <1>3. /\ IsPart("selectors", d.selectors) /\ IsPart("conditions", d.conditions)
        /\ IsPart("selections", d.selections) /\ IsPart("fields", d.fields)
        /\ IsPart("values", d.values)
    BY DEF IsDraft, Parts
  <1>4. IsPart("key", d.key) /\ IsPart("scalar", d.scalar)
    BY DEF IsDraft, Parts
  <1>5. d.key \in [field : Texts, modifiers : Seq(STRING)]
    BY <1>4 DEF IsPart
  <1>6. d.scalar \in [kind : {"none", "bool", "float", "nonfinite", "nested", "int", "string"},
                      text : Texts, bits : Nat]
    BY <1>4 DEF IsPart
  <1>7. d.title \in Texts /\ d.suffix \in Texts
    BY <1>1 DEF IsPart
  <1>8. \A k \in DOMAIN d.logsource : d.logsource[k] \in Texts
    BY <1>2 DEF IsPart
  <1>9. /\ d.selectors \in Nat /\ d.conditions \in Nat /\ d.selections \in Nat
        /\ d.fields \in Nat /\ d.values \in Nat
    BY <1>3 DEF IsPart
  <1> QED BY <1>5, <1>6, <1>7, <1>8, <1>9

\* The author starts with a draft and no condition, and each step leaves one.
THEOREM InvariantHolds == DraftSpec => []IInv
  <1>1. DraftInit => IInv
    BY DraftAssumption DEF DraftInit, Init, IInv, IsDraft
  <1>2. IInv /\ [DraftNext]_<<vars, draft, edits>> => IInv'
    <2> SUFFICES ASSUME IInv, [DraftNext]_<<vars, draft, edits>>
                 PROVE  IInv'
      OBVIOUS
    <2>1. CASE WriteCondition
      <3>1. PICK t \in Lexemes : condition' = Append(condition, t)
        BY <2>1 DEF WriteCondition, Next, Write
      <3>2. condition' \in Seq(Lexemes)
        BY <3>1 DEF IInv
      <3> QED BY <2>1, <3>2 DEF WriteCondition, IInv, IsDraft
    <2>2. ASSUME NEW p \in DOMAIN Plain, Edit(p)
          PROVE  IInv'
      <3>1. PICK v \in Options[p] : draft' = [draft EXCEPT ![p] = v]
        BY <2>2 DEF Edit
      <3>2. p \in Parts /\ IsPart(p, v)
        BY <3>1, DraftAssumption
      <3>3. DOMAIN draft' = Parts
        BY <3>1 DEF IInv, IsDraft
      <3>4. ASSUME NEW q \in Parts
            PROVE  IsPart(q, draft'[q])
        <4>1. CASE q = p
          <5>1. draft'[q] = v
            BY <4>1, <3>1 DEF IInv, IsDraft
          <5> QED BY <5>1, <4>1, <3>2
        <4>2. CASE q # p
          <5>1. draft'[q] = draft[q]
            BY <4>2, <3>1 DEF IInv, IsDraft
          <5> QED BY <5>1 DEF IInv, IsDraft
        <4> QED BY <4>1, <4>2
      <3> QED BY <2>2, <3>3, <3>4 DEF Edit, vars, IInv, IsDraft
    <2>3. CASE UNCHANGED <<vars, draft, edits>>
      BY <2>3 DEF vars, IInv, IsDraft
    <2> QED BY <2>1, <2>2, <2>3 DEF DraftNext
  <1> QED BY <1>1, <1>2, PTL DEF DraftSpec

-----------------------------------------------------------------------------
\* No metadata text holds a surrogate.
LEMMA MetadataIsEncodable ==
    ASSUME NEW t, ValidMetadataText(t)
    PROVE  Encodable(t)
  BY DEF ValidMetadataText, Encodable, Invisible

\* 4096 bits are 1234 digits.
LEMMA FewDigits ==
    ASSUME NEW bits \in Nat, bits <= 4096
    PROVE  DecimalDigits(bits) <= MaxIntStrDigits
  BY DEF DecimalDigits, MaxIntStrDigits

\* What the checks let through can be serialized.
LEMMA StructuralIsSerializable ==
    ASSUME NEW d, IsDraft(d), Structural(d)
    PROVE  Serializable(d)
  <1>1. Encodable(d.title)
    BY MetadataIsEncodable DEF Structural, ValidTitle
  <1>2. Encodable(d.suffix)
    BY DEF Structural, ValidConditions, Encodable, Invisible
  <1>3. Encodable(d.key.field)
    BY MetadataIsEncodable DEF Structural, ValidSelections, ValidFieldKey
  <1>4. \A k \in DOMAIN d.logsource : Encodable(d.logsource[k])
    BY MetadataIsEncodable DEF Structural, ValidLogsource
  <1>5. ValidScalar(d.scalar)
    BY DEF Structural, ValidSelections
  <1>6. d.scalar.kind = "string" => Encodable(d.scalar.text)
    BY <1>5 DEF ValidScalar
  <1>7. d.scalar.kind = "int" => d.scalar.bits <= 4096
    BY <1>5 DEF ValidScalar
  <1>8. d.scalar.kind = "int" => DecimalDigits(d.scalar.bits) <= MaxIntStrDigits
    BY <1>7, DraftParts, FewDigits
  <1> QED BY <1>1, <1>2, <1>3, <1>4, <1>6, <1>8 DEF Serializable

\* The size check of validate_structure never raises, whatever the draft.
THEOREM SizeCheckNeverRaises == DraftSpec => []NeverRaises
  <1>1. IInv => NeverRaises
    BY StructuralIsSerializable DEF IInv, NeverRaises, Preflight
  <1> QED BY <1>1, InvariantHolds, PTL

-----------------------------------------------------------------------------
\* How much escaping grows a text.
SixTimes(a, b) == a \in Nat /\ b \in Nat /\ a <= 6 * b

\* It grows what is made of two texts as much,
LEMMA Sums ==
    ASSUME NEW a, NEW b, NEW c, NEW e, SixTimes(a, b), SixTimes(c, e)
    PROVE  SixTimes(a + c, b + e)
  BY DEF SixTimes

\* and a text that is there many times.
LEMMA Multiples ==
    ASSUME NEW n \in Nat, NEW a, NEW b, SixTimes(a, b)
    PROVE  SixTimes(n * a, n * b)
  <1>1. a \in Nat /\ b \in Nat /\ a <= 6 * b
    BY DEF SixTimes
  <1>2. n * a <= n * (6 * b)
    BY <1>1
  <1>3. n * (6 * b) = 6 * (n * b)
    BY <1>1
  <1>4. n * a \in Nat /\ n * b \in Nat
    BY <1>1
  <1> QED BY <1>2, <1>3, <1>4 DEF SixTimes

\* Escaped to ASCII a character takes at most six times its bytes.
LEMMA EscapedCharacter ==
    ASSUME NEW c \in Kinds
    PROVE  SixTimes(InAscii[c], InUtf8[c])
  BY DEF Kinds, InAscii, InUtf8, SixTimes

\* A text does, with its quotes and its separator.
LEMMA EscapedText ==
    ASSUME NEW t \in Texts
    PROVE  SixTimes(Size(t, InAscii), Size(t, InUtf8))
  <1>1. t.edge \in Kinds /\ t.inner \in Kinds /\ t.length \in Nat
    BY DEF Texts
  <1>2. SixTimes(4, 4) /\ 2 \in Nat
    BY DEF SixTimes
  <1>3. CASE t.length <= 2
    <2>1. SixTimes(t.length * InAscii[t.edge], t.length * InUtf8[t.edge])
      BY <1>1, EscapedCharacter, Multiples
    <2>2. SixTimes(4 + t.length * InAscii[t.edge], 4 + t.length * InUtf8[t.edge])
      BY <2>1, <1>2, Sums
    <2> QED BY <1>3, <2>2 DEF Size
  <1>4. CASE ~(t.length <= 2)
    <2>1. t.length - 2 \in Nat
      BY <1>1, <1>4
    <2>2. SixTimes((t.length - 2) * InAscii[t.inner], (t.length - 2) * InUtf8[t.inner])
      BY <1>1, <2>1, EscapedCharacter, Multiples
    <2>3. SixTimes(2 * InAscii[t.edge], 2 * InUtf8[t.edge])
      BY <1>1, <1>2, EscapedCharacter, Multiples
    <2>4. SixTimes(4 + (2 * InAscii[t.edge] + (t.length - 2) * InAscii[t.inner]),
                   4 + (2 * InUtf8[t.edge] + (t.length - 2) * InUtf8[t.inner]))
      BY <2>2, <2>3, <1>2, Sums
    <2> QED BY <1>4, <2>4 DEF Size
  <1> QED BY <1>3, <1>4

\* So does a scalar.
LEMMA EscapedScalar ==
    ASSUME NEW v, v.text \in Texts, v.bits \in Nat
    PROVE  SixTimes(ScalarSize(v, InAscii), ScalarSize(v, InUtf8))
  <1>1. CASE v.kind = "string"
    BY <1>1, EscapedText DEF ScalarSize
  <1>2. CASE v.kind = "int"
    <2>1. DecimalDigits(v.bits) \in Nat
      BY DEF DecimalDigits
    <2>2. /\ ScalarSize(v, InAscii) = DecimalDigits(v.bits) + 4
          /\ ScalarSize(v, InUtf8) = DecimalDigits(v.bits) + 4
      BY <1>2 DEF ScalarSize
    <2> QED BY <2>1, <2>2 DEF SixTimes
  <1>3. CASE v.kind \notin {"string", "int"}
    BY <1>3 DEF ScalarSize, SixTimes
  <1> QED BY <1>1, <1>2, <1>3

\* And so does a draft.
LEMMA EscapedDraft ==
    ASSUME NEW d, IsDraft(d), condition \in Seq(Lexemes)
    PROVE  SixTimes(DraftSize(d, InAscii), DraftSize(d, InUtf8))
  <1> DEFINE Entry(k, cost) ==
                 IF k \in DOMAIN d.logsource THEN 12 + Size(d.logsource[k], cost) ELSE 0
             Values(cost) == d.values * ScalarSize(d.scalar, cost)
             Field(cost) == Size(d.key.field, cost) + 9 * Len(d.key.modifiers) + Values(cost)
             Item(cost) == Len(condition) * LexemeLength + Size(d.suffix, cost)
             Fields == d.selectors * d.selections * d.fields
  <1>1. \A n \in Nat : SixTimes(n, n)
    BY DEF SixTimes
  <1>2. ASSUME NEW k
        PROVE  SixTimes(Entry(k, InAscii), Entry(k, InUtf8))
    <2>1. CASE k \in DOMAIN d.logsource
      <3>1. SixTimes(Size(d.logsource[k], InAscii), Size(d.logsource[k], InUtf8))
        BY <2>1, DraftParts, EscapedText
      <3>2. SixTimes(12 + Size(d.logsource[k], InAscii), 12 + Size(d.logsource[k], InUtf8))
        BY <3>1, <1>1, Sums
      <3> QED BY <2>1, <3>2
    <2>2. CASE k \notin DOMAIN d.logsource
      BY <2>2, <1>1
    <2> QED BY <2>1, <2>2
  <1>3. SixTimes(Field(InAscii), Field(InUtf8))
    <2>1. SixTimes(Size(d.key.field, InAscii), Size(d.key.field, InUtf8))
      BY DraftParts, EscapedText
    <2>2. 9 * Len(d.key.modifiers) \in Nat
      BY DraftParts
    <2>3. SixTimes(Size(d.key.field, InAscii) + 9 * Len(d.key.modifiers),
                   Size(d.key.field, InUtf8) + 9 * Len(d.key.modifiers))
      BY <2>1, <2>2, <1>1, Sums
    <2>4. SixTimes(Values(InAscii), Values(InUtf8))
      BY DraftParts, EscapedScalar, Multiples
    <2> QED BY <2>3, <2>4, Sums
  <1>4. SixTimes(d.conditions * Item(InAscii), d.conditions * Item(InUtf8))
    <2>1. SixTimes(Size(d.suffix, InAscii), Size(d.suffix, InUtf8))
      BY DraftParts, EscapedText
    <2>2. Len(condition) * LexemeLength \in Nat
      BY DraftAssumption
    <2>3. SixTimes(Item(InAscii), Item(InUtf8))
      BY <2>1, <2>2, <1>1, Sums
    <2> QED BY <2>3, DraftParts, Multiples
  <1>5. SixTimes(Fields * Field(InAscii), Fields * Field(InUtf8))
    <2>1. Fields \in Nat
      BY DraftParts
    <2> QED BY <1>3, <2>1, Multiples
  <1>6. SixTimes(Size(d.title, InAscii), Size(d.title, InUtf8))
    BY DraftParts, EscapedText
  <1> DEFINE Entries(cost) ==
                 Size(d.title, cost)
                 + Entry("category", cost) + Entry("product", cost)
                 + Entry("service", cost) + Entry("definition", cost)
  <1>7. SixTimes(Entries(InAscii), Entries(InUtf8))
    <2>1. /\ SixTimes(Entry("category", InAscii), Entry("category", InUtf8))
          /\ SixTimes(Entry("product", InAscii), Entry("product", InUtf8))
          /\ SixTimes(Entry("service", InAscii), Entry("service", InUtf8))
          /\ SixTimes(Entry("definition", InAscii), Entry("definition", InUtf8))
      BY <1>2
    <2> QED BY <2>1, <1>6, Sums
  <1>8. SixTimes(Entries(InAscii) + d.conditions * Item(InAscii) + Fields * Field(InAscii),
                 Entries(InUtf8) + d.conditions * Item(InUtf8) + Fields * Field(InUtf8))
    BY <1>4, <1>5, <1>7, Sums
  <1> QED BY <1>8 DEF DraftSize

-----------------------------------------------------------------------------
\* What create_rule_draft stores as log source is one of the three identifiers.
LEMMA LogSourceFits ==
    ASSUME NEW d, ValidLogsource(d)
    PROVE  LogSource(d).length <= 100
  <1> DEFINE Stored(k) == \/ k = "product"
                          \/ k = "category" /\ "product" \notin DOMAIN d.logsource
                          \/ k = "service" /\ DOMAIN d.logsource \cap {"product", "category"} = {}
  <1>1. \E k \in DOMAIN d.logsource : Stored(k)
    BY DEF ValidLogsource
  <1>2. PICK k \in DOMAIN d.logsource : Stored(k) /\ LogSource(d) = d.logsource[k]
    BY <1>1 DEF LogSource
  <1>3. k # "definition"
    BY <1>2
  <1> QED BY <1>2, <1>3 DEF ValidLogsource

\* A draft the preflight accepts fits its columns and is read back, whatever is in it.
THEOREM AcceptedDraftsAreRead == DraftSpec => []AcceptedDraftsPersist
  <1>1. ASSUME IInv, Preflight(draft) = "accepted"
        PROVE  FitsColumns(draft) /\ DecodesAgain(draft)
    <2>1. Structural(draft) /\ ~(DraftSize(draft, InUtf8) > MaxDraftBytes)
      BY <1>1 DEF Preflight
    <2>2. FitsColumns(draft)
      <3>1. draft.title.length <= 200
        BY <2>1 DEF Structural, ValidTitle
      <3>2. LogSource(draft).length <= 100
        BY <2>1, LogSourceFits DEF Structural
      <3> QED BY <3>1, <3>2 DEF FitsColumns
    <2>3. DraftSize(draft, InAscii) <= MaxStoredSnapshotChars
      <3>1. /\ DraftSize(draft, InAscii) \in Nat /\ DraftSize(draft, InUtf8) \in Nat
            /\ DraftSize(draft, InAscii) <= 6 * DraftSize(draft, InUtf8)
        BY <1>1, EscapedDraft DEF IInv, SixTimes
      <3>2. DraftSize(draft, InUtf8) <= 65536
        BY <2>1, <3>1 DEF MaxDraftBytes
      <3> QED BY <3>1, <3>2 DEF MaxStoredSnapshotChars
    <2>4. draft.scalar.kind # "nonfinite"
      BY <2>1 DEF Structural, ValidSelections, ValidScalar
    <2> QED BY <1>1, <2>2, <2>3, <2>4 DEF DecodesAgain
  <1>2. IInv => AcceptedDraftsPersist
    BY <1>1 DEF AcceptedDraftsPersist
  <1> QED BY <1>2, InvariantHolds, PTL

-----------------------------------------------------------------------------
(* The conditions of a draft are those of ConditionGrammar. *)

\* What the author of a draft does to its condition, the author of a condition may do.
THEOREM DraftsWriteConditions == DraftSpec => Spec
  <1>1. DraftInit => Init
    BY DEF DraftInit
  <1>2. [DraftNext]_<<vars, draft, edits>> => [Next]_vars
    BY DEF DraftNext, WriteCondition, Edit
  <1> QED BY <1>1, <1>2, PTL DEF DraftSpec, Spec

\* In a draft, too, the parser accepts what the grammar derives.
THEOREM DraftParserMatchesGrammar == DraftSpec => []ParserMatchesGrammar
  BY DraftsWriteConditions, ParserMatchesGrammarHolds, PTL

\* In a draft, too, what can be read and denotes is exactly what is accepted without a
\* quantifier over a keyword.
THEOREM DraftAcceptanceIsExact == DraftSpec => []AcceptanceIsExact
  BY DraftsWriteConditions, AcceptanceIsExactHolds, PTL
=============================================================================
