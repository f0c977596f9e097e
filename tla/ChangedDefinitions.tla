------------------------- MODULE ChangedDefinitions -------------------------
(***************************************************************************)
(* Which functions and classes a hunk changes: the lines of a unified diff *)
(* are turned into line numbers of the new file, and each of them is       *)
(* looked up in the syntax tree, first down to the deepest node that       *)
(* covers the line and then up to a definition (backend/app/parser/ast.py).*)
(* What is found here becomes the AST summary that the agents read, and    *)
(* the functions whose blast radius is asked for.                          *)
(*                                                                         *)
(* Git and tree-sitter end a line at a newline.  str.splitlines(), by      *)
(* which both split_patch_into_hunks and parse_changed_lines take a patch  *)
(* apart, also does at form feeds and other separators within one, so that *)
(* a line may come in several pieces.                                      *)
(*                                                                         *)
(* tree-sitter makes the tree.  Its nodes are numbered in the order of     *)
(* their text (a node before its children), so that among nodes that cover *)
(* a line the first in the text is the least.                              *)
(***************************************************************************)
EXTENDS Naturals, Sequences, FiniteSets

CONSTANTS
    NodeCount,  \* bound: nodes of a tree
    LineCount,  \* bound: lines of a file
    MaxBody,    \* bound: pieces of a hunk, without its header
    MaxCuts     \* bound: of these, the ones that are no lines of their own

ASSUME SizeAssumption ==
    NodeCount \in Nat \ {0} /\ LineCount \in Nat \ {0} /\ MaxBody \in Nat /\ MaxCuts \in Nat

Nodes == 1..NodeCount
Lines == 1..LineCount
Root == 1
NoNode == 0

VARIABLES
    tree,     \* input: parents, lines and kinds of the nodes
    hunk,     \* input: whether the header is one, its first new line, its pieces, and
              \* the positions of those that are the rest of the line (or header) before
    pos,      \* parse_changed_lines: the next piece of the hunk
    current,  \* the line of the new file that it is thought to be
    changed,  \* changed_lines
    next,     \* get_changed_definitions: the changed line that is looked up
    node,     \* the node that the search has reached
    climbing, \* whether it goes up
    found     \* changed_definitions

lookupVars == <<tree, hunk, pos, current, changed, next, node, climbing, found>>

-----------------------------------------------------------------------------
(* Trees and hunks *)

\* A node's parent comes before it, and the root has none.
Parents == {p \in [Nodes -> {NoNode} \cup Nodes] : \A n \in Nodes : p[n] < n}

Tree == [parent : Parents, first : [Nodes -> Lines],
         last : [Nodes -> Lines], isDef : [Nodes -> BOOLEAN]]

\* Children lie in their parents, one after another; two may share a line.
IsTree(t) ==
    /\ t.parent[Root] = NoNode /\ ~t.isDef[Root]
    /\ \A n \in Nodes : t.first[n] <= t.last[n]
    /\ \A n \in Nodes \ {Root} :
          LET p == t.parent[n]
          IN  /\ p \in 1..(n - 1)
              /\ t.first[p] <= t.first[n] /\ t.last[n] <= t.last[p]
              /\ \A m \in (p + 1)..(n - 1) :
                    /\ t.parent[m] >= p
                    /\ t.parent[m] = p => t.last[m] <= t.first[n]

\* How a line begins that is added, removed, context, or "\ No newline at end of
\* file", and how the rest of a line may begin: like these, or like a header.
Marks == {"+", "-", "context", "\\", "@@"}

\* A marker ends the old file, the new one, or both: after a removed line only
\* added lines may follow it, after another line nothing.
IsHunk(b, rests) ==
    /\ rests \subseteq DOMAIN b
    /\ \A i \in DOMAIN b : b[i] # IF i \in rests THEN "\\" ELSE "@@"
    /\ \A i \in DOMAIN b : b[i] = "\\" =>
          \E p \in (1..(i - 1)) \ rests :
              /\ (p + 1)..(i - 1) \subseteq rests /\ b[p] # "\\"
              /\ b[p] = "-" => \A j \in ((i + 1)..Len(b)) \ rests :
                                 b[j] = "+" \/ (b[j] = "\\" /\ j = Len(b))
              /\ b[p] # "-" => i = Len(b)

\* Without a header, as in a scan of whole files, nothing else is looked at.  (The rest
\* of a line that reads as a whole header is left out: it would begin another hunk.)
Hunks ==
    {h \in [isHeader : {TRUE}, start : Lines, rests : SUBSET (1..MaxBody),
            body : UNION {[1..n -> Marks] : n \in 0..MaxBody}] :
        IsHunk(h.body, h.rests) /\ Cardinality(h.rests) <= MaxCuts}
    \cup [isHeader : {FALSE}, start : {1}, rests : {{}}, body : {<<>>}]

\* The line of the new file that the j-th piece of the hunk is, or would follow.
NewLine(h, j) ==
    h.start + Cardinality({i \in (1..(j - 1)) \ h.rests : h.body[i] \in {"+", "context"}})

\* The pieces before the j-th that are no lines.
Cuts(h, j) == Cardinality(h.rests \cap (1..(j - 1)))

\* The added lines up to which no line is cut.
AddedLines ==
    {NewLine(hunk, j) : j \in {i \in DOMAIN hunk.body :
        hunk.body[i] = "+" /\ hunk.rests \cap (1..i) = {}}}

-----------------------------------------------------------------------------
(* parse_changed_lines *)

\* The rest of a line that begins like a header begins a new hunk.
Parsed == hunk.isHeader /\ pos <= Len(hunk.body) => hunk.body[pos] = "@@"

\* Mutant of ParseLine: only added lines are changed.
ParseAddedLine ==
    /\ ~Parsed
    /\ LET mark == hunk.body[pos]
       IN  /\ changed' = IF mark = "+" THEN Append(changed, current) ELSE changed
           /\ current' = IF mark = "-" THEN current ELSE current + 1
    /\ pos' = pos + 1
    /\ UNCHANGED <<tree, hunk, next, node, climbing, found>>

\* Mutant of ParseLine: context lines are changed.
ParseEveryLine ==
    /\ ~Parsed
    /\ changed' = Append(changed, current)
    /\ current' = IF hunk.body[pos] = "-" THEN current ELSE current + 1
    /\ pos' = pos + 1
    /\ UNCHANGED <<tree, hunk, next, node, climbing, found>>

\* A removed line is taken to be where the next line is; every piece that begins
\* neither like an added nor like a removed line counts as a line of the new file.
ParseLine ==
    /\ ~Parsed
    /\ LET mark == hunk.body[pos]
       IN  /\ changed' = IF mark \in {"+", "-"} THEN Append(changed, current) ELSE changed
           /\ current' = IF mark = "-" THEN current ELSE current + 1
    /\ pos' = pos + 1
    /\ UNCHANGED <<tree, hunk, next, node, climbing, found>>

-----------------------------------------------------------------------------
(* get_changed_definitions *)

Covers(n, l) == tree.first[n] <= l /\ l <= tree.last[n]
CoveringChildren(n, l) == {c \in Nodes : tree.parent[c] = n /\ Covers(c, l)}

\* Mutant of First: the last child.
Final(S) == CHOOSE n \in S : \A m \in S : m <= n
First(S) == CHOOSE n \in S : \A m \in S : n <= m

\* The search starts at the root, if the tree covers the line at all.
StartSearch ==
    /\ Parsed /\ next <= Len(changed) /\ node = NoNode /\ ~climbing
    /\ IF Covers(Root, changed[next])
       THEN node' = Root /\ next' = next
       ELSE node' = NoNode /\ next' = next + 1
    /\ UNCHANGED <<tree, hunk, pos, current, changed, climbing, found>>

\* find_deepest_node: the first child that covers the line is the way down.
Descend ==
    /\ node # NoNode /\ ~climbing
    /\ LET children == CoveringChildren(node, changed[next])
       IN  IF children # {}
           THEN node' = First(children) /\ climbing' = FALSE
           ELSE node' = node /\ climbing' = TRUE
    /\ UNCHANGED <<tree, hunk, pos, current, changed, next, found>>

\* get_enclosing_definition: up to the first definition.
Climb ==
    /\ climbing /\ node # NoNode /\ ~tree.isDef[node]
    /\ node' = tree.parent[node]
    /\ UNCHANGED <<tree, hunk, pos, current, changed, next, climbing, found>>

\* A definition is added once; without one the line is passed over.
Collect ==
    /\ climbing /\ (node # NoNode => tree.isDef[node])
    /\ found' = IF node = NoNode THEN found ELSE found \cup {node}
    /\ node' = NoNode /\ climbing' = FALSE /\ next' = next + 1
    /\ UNCHANGED <<tree, hunk, pos, current, changed>>

-----------------------------------------------------------------------------

\* The hunk belongs to the file: its lines are there.
LookupInit ==
    /\ tree \in Tree /\ IsTree(tree)
    /\ hunk \in Hunks
    /\ NewLine(hunk, Len(hunk.body) + 1) <= LineCount + 1
    /\ pos = 1 /\ current = hunk.start /\ changed = <<>>
    /\ next = 1 /\ node = NoNode /\ climbing = FALSE /\ found = {}

LookupNext == ParseLine \/ StartSearch \/ Descend \/ Climb \/ Collect

LookupSpec == LookupInit /\ [][LookupNext]_lookupVars

-----------------------------------------------------------------------------
(* Properties *)

LookupTypeOK ==
    /\ tree \in Tree /\ hunk \in Hunks
    /\ pos \in 1..(Len(hunk.body) + 1) /\ current \in Nat
    /\ changed \in Seq(Nat) /\ next \in 1..(Len(changed) + 1)
    /\ node \in {NoNode} \cup Nodes /\ climbing \in BOOLEAN
    /\ found \subseteq {n \in Nodes : tree.isDef[n]}

Done == Parsed /\ next > Len(changed) /\ ~climbing

\* For every line that the hunk adds there is a changed line that is not before it, and
\* after it only by as many lines as lines were cut before it.  So it is itself among
\* the changed lines if none was, although the marker of a missing newline counts as a
\* line.  (What follows a piece like a header is another hunk's.)
EveryAddedLineIsChanged ==
    Parsed /\ hunk.isHeader =>
        \A j \in DOMAIN hunk.body \ hunk.rests :
            hunk.body[j] = "+" /\ (\A i \in 1..(j - 1) : hunk.body[i] # "@@") =>
                \E k \in DOMAIN changed :
                    changed[k] \in NewLine(hunk, j)..(NewLine(hunk, j) + Cuts(hunk, j))

\* By how many lines the parser may be ahead at the j-th piece.
Ahead(j) ==
    Cuts(hunk, j) + IF \E i \in 1..(j - 1) : hunk.body[i] = "\\" THEN 1 ELSE 0

\* What is found covers a line that the hunk adds, or one at which it removes something,
\* or a line after it by as many lines as lines were cut before, and one more after a
\* marker.  It does not do for it to cover context.  (The rest of a cut line that begins
\* like an added or a removed one counts as one.)
FoundIsTouched ==
    \A d \in found : \E j \in DOMAIN hunk.body :
        /\ hunk.body[j] \in {"+", "-"}
        /\ \E l \in NewLine(hunk, j)..(NewLine(hunk, j) + Ahead(j)) : Covers(d, l)

\* Whether d is m or lies in it.
Within(d, m) == m <= d /\ \A n \in (m + 1)..d : tree.parent[n] >= m

\* Whether something that neither lies around d nor in it is before it on a line.
PrecededOn(d, l) ==
    \E m, n \in Nodes : /\ Within(d, m) /\ n < m
                        /\ tree.parent[n] = tree.parent[m] /\ Covers(n, l)

\* If an added line, up to which no line is cut, lies in definitions, one of them is
\* found, unless each of them begins on that very line, after something else on it.
MissedOnlyOnSharedFirstLine ==
    Done /\ hunk.isHeader =>
        \A l \in AddedLines :
            LET around == {d \in Nodes : tree.isDef[d] /\ Covers(d, l)}
            IN  \/ around \cap found # {}
                \/ \A d \in around : tree.first[d] = l /\ PrecededOn(d, l)
=============================================================================
