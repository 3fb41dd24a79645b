---------------------------- MODULE InterfaceClaims ---------------------------
(***************************************************************************)
(* extractMcpInterfaceClaims() of src/src/mcp/interface-claims.ts: the     *)
(* texts of an interface nobody trusts (names, titles, descriptions and    *)
(* the keys and strings of the input schemas) are read under a budget of   *)
(* tools, characters, depth, nodes and evidence.  Whatever a budget leaves *)
(* unread is recorded as a truncation, up to a number of truncations, and  *)
(* counted beyond it.                                                      *)
(*                                                                         *)
(* A text is [length, claims]: claims gives for each capability that the   *)
(* text affirms how many characters must be read to see it.  A tool is     *)
(* [fields, annotations, schema]: its name, title and description, what it *)
(* gives as annotations ([object, values]), and its schema as a tree,      *)
(* a function from positions: <<>> is the root, <<i, j>> is the j-th       *)
(* item of the i-th (entries in the order of their keys).  A node is       *)
(* [kind, text, key, structural, ignored]: text is the text of a string,   *)
(* key the text of the key it stands under in an object, of which some are *)
(* structural and some have strings that are not prose.                    *)
(*                                                                         *)
(* A pointer is <<tool, field>> or <<tool, 0>> and a position of a schema. *)
(***************************************************************************)
EXTENDS Naturals, Sequences, FiniteSets, SequencesExt

CONSTANTS
  Interfaces,      (* the sequences of tools a server may list               *)
  Capabilities,
  MaxTools, MaxFieldCharacters, MaxSchemaDepth, MaxSchemaNodes,
  MaxSchemaTextCharacters, MaxSchemaKeyCharacters, MaxEvidence, MaxTruncations

ASSUME ClaimLimitsAssumption ==
  /\ MaxSchemaDepth \in Nat
  /\ {MaxTools, MaxFieldCharacters, MaxSchemaNodes, MaxSchemaTextCharacters,
      MaxSchemaKeyCharacters, MaxEvidence, MaxTruncations} \subseteq Nat \ {0}

(* What an interface is: a text affirms within its length; a schema is a   *)
(* tree in which only containers have children, and the children of one    *)
(* are numbered from 1 without a gap, as the items of an array and the     *)
(* sorted keys of an object are.                                           *)
IsText(x) ==
  /\ x.length \in Nat /\ DOMAIN x.claims \subseteq Capabilities
  /\ \A c \in DOMAIN x.claims : x.claims[c] \in 0..x.length

IsSchema(tree) ==
  /\ <<>> \in DOMAIN tree
  /\ \A p \in DOMAIN tree :
       /\ p \in Seq(Nat \ {0})
       /\ tree[p].kind \in {"string", "scalar", "array", "object"}
       /\ IsText(tree[p].text) /\ IsText(tree[p].key)
       /\ \A m \in 1..Len(p) :
            LET above == SubSeq(p, 1, m - 1)
            IN  /\ above \in DOMAIN tree
                /\ tree[above].kind \in {"array", "object"}
                /\ \A i \in 1..p[m] : Append(above, i) \in DOMAIN tree

ASSUME InterfacesAssumption ==
  \A interface \in Interfaces :
    /\ interface \in Seq(Range(interface))
    /\ \A t \in DOMAIN interface :
         LET fields == interface[t].fields
         IN  /\ fields \in Seq(Range(fields))
             /\ \A f \in DOMAIN fields : IsText(fields[f])
             /\ IsSchema(interface[t].schema)

VARIABLES
  tools,        (* the interface                                             *)
  tool,         (* the tool under analysis                                   *)
  field,        (* its next field; its schema comes after the last           *)
  loops,        (* the open loops over children: <<position, next child>>    *)
  scan,         (* the counters, the evidence and the truncations            *)
  assessments   (* the tools analysed: [claims, annotations, issues]         *)

claimVars == <<tools, tool, field, loops, scan, assessments>>

AnalyzedTools == IF Len(tools) < MaxTools THEN Len(tools) ELSE MaxTools

NoEvidence == [c \in Capabilities |-> {}]

(* addTruncation(): once for a reason and a pointer.                       *)
Truncate(s, pointer, reason) ==
  LET t == [pointer |-> pointer, reason |-> reason]
  IN  IF t \in s.reported THEN s
      ELSE IF Len(s.truncations) >= MaxTruncations
      THEN [s EXCEPT !.reported = @ \union {t}, !.omitted = @ + 1]
      ELSE [s EXCEPT !.reported = @ \union {t}, !.truncations = Append(@, t)]

ClaimsInit ==
  /\ tools \in Interfaces
  /\ tool = 1 /\ field = 1 /\ loops = <<>> /\ assessments = <<>>
  /\ LET fresh == [nodes |-> 0, characters |-> 0, evidence |-> NoEvidence,
                   truncations |-> <<>>, reported |-> {}, omitted |-> 0,
                   allNodes |-> 0, allCharacters |-> 0]
     IN  scan = IF Len(tools) > AnalyzedTools
                THEN Truncate(fresh, <<AnalyzedTools + 1>>, "tool_limit")
                ELSE fresh

(* addEvidence() for what the first characters of a text affirm.           *)
AddEvidence(s, text, allowed, place) ==
  LET seen == {c \in DOMAIN text.claims : text.claims[c] <= allowed}
      full == {c \in seen : Cardinality(s.evidence[c]) >= MaxEvidence}
      added == [s EXCEPT !.evidence =
        [c \in Capabilities |->
           IF c \in seen \ full THEN @[c] \union {place} ELSE @[c]]]
  IN  IF full = {} THEN added ELSE Truncate(added, place[1], "evidence_limit")

Least(a, b) == IF a < b THEN a ELSE b

(* scanText() of a name, title or description.                             *)
ScanField(s, text, pointer) ==
  LET allowed == Least(text.length, MaxFieldCharacters)
      cut == IF allowed < text.length
             THEN Truncate(s, pointer, "field_character_limit") ELSE s
  IN  AddEvidence(cut, text, allowed, <<pointer, "field_value">>)

(* scanText() of a text in the schema, which also spends the tool's budget. *)
ScanSchemaText(s, text, pointer, source) ==
  LET left == MaxSchemaTextCharacters - s.characters
      bounded == Least(text.length, MaxFieldCharacters)
      allowed == Least(bounded, left)
      spent == [s EXCEPT !.characters = @ + allowed]
      cut == CASE allowed = text.length -> spent
               [] allowed < bounded ->
                    Truncate(spent, pointer, "schema_text_character_limit")
               [] OTHER -> Truncate(spent, pointer, "field_character_limit")
  IN  AddEvidence(cut, text, allowed, <<pointer, source>>)

-----------------------------------------------------------------------------
Fields == tools[tool].fields
Schema == tools[tool].schema
Pointer(position) == <<tool, 0>> \o position

Children(position) ==
  {p \in DOMAIN Schema : Len(p) = Len(position) + 1 /\ IsPrefix(position, p)}

(* The key that decides whether a string is prose: its own, or the one of  *)
(* the arrays it is in.                                                    *)
UnderIgnoredKey(tree, position) ==
  LET keyed == {n \in 1..Len(position) :
                  tree[SubSeq(position, 1, n - 1)].kind = "object"}
  IN  \E n \in keyed : /\ \A k \in keyed : k <= n
                       /\ tree[SubSeq(position, 1, n)].ignored

ScanFieldNext ==
  /\ tool <= AnalyzedTools /\ field <= Len(Fields)
  /\ scan' = ScanField(scan, Fields[field], <<tool, field>>)
  /\ field' = field + 1
  /\ UNCHANGED <<tools, tool, loops, assessments>>

(* scanSchema() of one node: a string is read, a container opens a loop    *)
(* unless it is too deep or has more keys than nodes are left.             *)
Visit(s, position, rest) ==
  LET node == Schema[position]
      t == [s EXCEPT !.nodes = @ + 1]
      Leaves(u) == scan' = u /\ loops' = rest
  IN  CASE node.kind = "string" ->
             Leaves(IF UnderIgnoredKey(Schema, position) THEN t
                    ELSE ScanSchemaText(t, node.text, Pointer(position),
                                        "schema_value"))
        [] node.kind = "scalar" -> Leaves(t)
        [] node.kind \in {"array", "object"} ->
             IF Len(position) >= MaxSchemaDepth
             THEN Leaves(Truncate(t, Pointer(position), "schema_depth_limit"))
             ELSE IF /\ node.kind = "object"
                     /\ Cardinality(Children(position))
                          > MaxSchemaNodes - t.nodes
             THEN Leaves(Truncate(t, Pointer(position), "schema_node_limit"))
             ELSE /\ scan' = t
                  /\ loops' = Append(rest, <<position, 1>>)

VisitRoot ==
  /\ tool <= AnalyzedTools /\ field = Len(Fields) + 1
  /\ Visit(scan, <<>>, <<>>)
  /\ field' = field + 1
  /\ UNCHANGED <<tools, tool, assessments>>

InLoop(position, i) ==
  loops # <<>> /\ Last(loops) = <<position, i>>

(* The keys of an object are read before their values are visited.         *)
KeyScanned(position, child) ==
  LET node == Schema[child]
  IN  IF Schema[position].kind = "object" /\ ~node.structural
      THEN ScanSchemaText(scan, node.key, Pointer(child), "schema_key")
      ELSE scan

LongKey(position, child) ==
  /\ Schema[position].kind = "object"
  /\ Schema[child].key.length > MaxSchemaKeyCharacters

SkipLongKey(position, i) ==
  /\ InLoop(position, i)
  /\ LET child == Append(position, i)
     IN  /\ child \in DOMAIN Schema
         /\ LongKey(position, child)
         /\ scan' = Truncate(scan, Pointer(position),
                             "schema_key_character_limit")
  /\ loops' = Append(Front(loops), <<position, i + 1>>)
  /\ UNCHANGED <<tools, tool, field, assessments>>

(* Mutant: the loop breaks and says nothing.                               *)
NodesExhausted(s, pointer) == s

(* The loop breaks at its next item, and that item is what is reported.    *)
NodesSpent(s, pointer) == Truncate(s, pointer, "schema_node_limit")

VisitChild(position, i) ==
  /\ InLoop(position, i)
  /\ LET child == Append(position, i)
     IN  /\ child \in DOMAIN Schema
         /\ ~LongKey(position, child)
         /\ LET s == KeyScanned(position, child)
            IN  IF s.nodes >= MaxSchemaNodes
                THEN /\ scan' = NodesSpent(s, Pointer(child))
                     /\ loops' = Front(loops)
                ELSE Visit(s, child,
                           Append(Front(loops), <<position, i + 1>>))
  /\ UNCHANGED <<tools, tool, field, assessments>>

LoopEnds(position, i) ==
  /\ InLoop(position, i)
  /\ Append(position, i) \notin DOMAIN Schema
  /\ loops' = Front(loops)
  /\ UNCHANGED <<tools, tool, field, scan, assessments>>

(* scanAnnotations(): boolean standard annotations are kept, others noted. *)
WithValue(annotations, type) ==
  {a \in DOMAIN annotations.values : annotations.values[a] = type}

ScanAnnotations(annotations) ==
  IF annotations.object
  THEN [evidence |-> {<<tool, a>> : a \in WithValue(annotations, "boolean")},
        issues |-> {<<tool, a>> : a \in WithValue(annotations, "other")}]
  ELSE [evidence |-> {}, issues |-> {<<tool>>}]

(* The evidence is materialised, the counters start again.                 *)
ToolAnalysed ==
  /\ tool <= AnalyzedTools /\ field = Len(Fields) + 2 /\ loops = <<>>
  /\ LET annotated == ScanAnnotations(tools[tool].annotations)
     IN  assessments' = Append(assessments,
           [claims |-> scan.evidence, annotations |-> annotated.evidence,
            issues |-> annotated.issues])
  /\ scan' = [scan EXCEPT !.evidence = NoEvidence,
       !.nodes = 0, !.allNodes = @ + scan.nodes,
       !.characters = 0, !.allCharacters = @ + scan.characters]
  /\ tool' = tool + 1 /\ field' = 1
  /\ UNCHANGED <<tools, loops>>

ClaimsNext ==
  \/ ScanFieldNext \/ VisitRoot \/ ToolAnalysed
  \/ \E n \in {Len(loops)} \ {0} :
       LET position == loops[n][1]
           i == loops[n][2]
       IN  \/ SkipLongKey(position, i) \/ VisitChild(position, i)
           \/ LoopEnds(position, i)

ClaimsSpec == ClaimsInit /\ [][ClaimsNext]_claimVars

-----------------------------------------------------------------------------
Extracted == tool > AnalyzedTools

(* mcpInterfaceClaimAnalysisV1Schema, with which the result is parsed: one *)
(* assessment of each analysed tool, within its budget, from that tool.    *)
AssessmentsAccepted ==
  /\ DOMAIN assessments = 1..AnalyzedTools
  /\ \A t \in DOMAIN assessments :
       /\ DOMAIN assessments[t].claims = Capabilities
       /\ \A c \in Capabilities :
            /\ Cardinality(assessments[t].claims[c]) <= MaxEvidence
            /\ \A e \in assessments[t].claims[c] : e[1][1] = t

AnnotationsAccepted ==
  \A t \in DOMAIN assessments :
    /\ \A a \in assessments[t].annotations \union assessments[t].issues : a[1] = t
    /\ assessments[t].annotations \intersect assessments[t].issues = {}

TruncationsAccepted ==
  LET stored == scan.truncations
      ofTools == {n \in DOMAIN stored : stored[n].reason = "tool_limit"}
  IN  /\ IsInjective(stored)
      /\ \A n \in ofTools : stored[n].pointer = <<AnalyzedTools + 1>>
      /\ \A n \in DOMAIN stored \ ofTools :
           Len(stored[n].pointer) > 1 /\ stored[n].pointer[1] <= AnalyzedTools
      /\ Cardinality(ofTools) = IF Len(tools) > AnalyzedTools THEN 1 ELSE 0
      /\ Len(stored) <= MaxTruncations
      /\ scan.omitted > 0 => Len(stored) = MaxTruncations

BudgetsAccepted ==
  /\ scan.allNodes <= AnalyzedTools * MaxSchemaNodes
  /\ scan.allCharacters <= AnalyzedTools * MaxSchemaTextCharacters

(* The texts of a tool, by pointer and source.                             *)
FieldTexts(t) ==
  {[at |-> <<t, f>>, source |-> "field_value", text |-> tools[t].fields[f]] :
     f \in DOMAIN tools[t].fields}

SchemaTexts(t) ==
  LET tree == tools[t].schema
      at == [p \in DOMAIN tree |-> <<t, 0>> \o p]
  IN  {[at |-> at[p], source |-> "schema_value", text |-> tree[p].text] :
         p \in {q \in DOMAIN tree : /\ tree[q].kind = "string"
                                    /\ ~UnderIgnoredKey(tree, q)}}
      \union
      {[at |-> at[p], source |-> "schema_key", text |-> tree[p].key] :
         p \in {q \in DOMAIN tree \ {<<>>} : /\ tree[Front(q)].kind = "object"
                                            /\ ~tree[q].structural}}

(* What a truncation says was not read: what is under its pointer, and,    *)
(* where a loop was left, what comes after it.                             *)
Covers(t, pointer) ==
  \/ IsPrefix(t.pointer, pointer)
  \/ /\ t.reason \in {"tool_limit", "schema_node_limit"}
     /\ Len(pointer) >= Len(t.pointer)
     /\ IsPrefix(Front(t.pointer), pointer)
     /\ pointer[Len(t.pointer)] >= Last(t.pointer)

(* "no_bounded_claim_identified" is honest: a capability that a text of    *)
(* the interface affirms is identified from that text, or a truncation     *)
(* says that this very place was not read to its end, or truncations were  *)
(* left out because there is no room for more; whatever the budgets ran    *)
(* out on first.  And the artifact satisfies the schema it is parsed with.  *)
NothingMissedSilently ==
  Extracted =>
    /\ \A t \in DOMAIN tools :
         \A x \in FieldTexts(t) \union SchemaTexts(t) :
           \A c \in DOMAIN x.text.claims :
             \/ /\ t <= AnalyzedTools
                /\ <<x.at, x.source>> \in assessments[t].claims[c]
             \/ \E u \in Range(scan.truncations) : Covers(u, x.at)
             \/ scan.omitted > 0
    /\ AssessmentsAccepted /\ AnnotationsAccepted
    /\ TruncationsAccepted /\ BudgetsAccepted

=============================================================================
