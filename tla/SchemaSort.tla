----------------------------- MODULE SchemaSort -----------------------------
(***************************************************************************)
(* The order in which the ERIS mock hands the generated XSD files to the     *)
(* schema factory: generateSchema of MockXmlFileLoader exchanges two files   *)
(* whenever an earlier one imports a later one, until a pass over the list   *)
(* has exchanged nothing. It runs in every reading and writing of a file.    *)
(***************************************************************************)
EXTENDS Naturals, Sequences, FiniteSets

CONSTANTS
  Files,     \* the generated XSD files
  Generated  \* the order in which JAXB has written them

Size == Cardinality(Files)

ASSUME FilesAssumption == IsFiniteSet(Files) /\ Files # {}
ASSUME GeneratedAssumption ==
  /\ Generated \in [1..Size -> Files]
  /\ \A f \in Files : \E k \in 1..Size : Generated[k] = f
  /\ \A k, l \in 1..Size : k # l => Generated[k] # Generated[l]

VARIABLES
  imports,  \* <<f, g>>: the text of f names g as a schemaLocation (it never names itself)
  sources,  \* the list that is sorted
  sorted,   \* nothing was exchanged in this pass
  i, j,     \* the two loops
  at        \* "while", in the loops ("for"), or "done"

vars == <<imports, sources, sorted, i, j, at>>

Permutation(s) ==
  /\ s \in [1..Size -> Files]
  /\ \A k, l \in 1..Size : k # l => s[k] # s[l]

TypeOK ==
  /\ imports \subseteq Files \X Files
  /\ Permutation(sources)
  /\ sorted \in BOOLEAN
  /\ i \in 1..Size
  /\ j \in 1..(Size + 1)
  /\ at \in {"while", "for", "done"}
  /\ at = "for" => i < j

Related(source, next) ==  \* mutant of depends: either file may name the other
  <<source, next>> \in imports \/ <<next, source>> \in imports

depends(source, next) == <<source, next>> \in imports

Init ==
  /\ imports \in SUBSET {e \in Files \X Files : e[1] # e[2]}
  /\ sources = Generated
  /\ sorted = FALSE
  /\ i = 1
  /\ j = 1
  /\ at = "while"

\* while (!sorted): a pass begins, or the list is done.
StartPass ==
  /\ at = "while"
  /\ ~sorted
  /\ sorted' = TRUE
  /\ i' = 1
  /\ j' = 2
  /\ at' = "for"
  /\ UNCHANGED <<imports, sources>>

Leave ==
  /\ at = "while"
  /\ sorted
  /\ at' = "done"
  /\ UNCHANGED <<imports, sources, sorted, i, j>>

NextRow == i' = i + 1 /\ j' = i + 2

Overwritten(s, k, l) == [s EXCEPT ![k] = s[l]]  \* mutant of Swapped

Swapped(s, k, l) == [s EXCEPT ![k] = s[l], ![l] = s[k]]

FlagOfFirstRow ==  \* mutant of Exchange: only the first row clears the flag
  /\ at = "for" /\ i < Size /\ j <= Size
  /\ depends(sources[i], sources[j])
  /\ sources' = Swapped(sources, i, j)
  /\ sorted' = (i # 1 /\ sorted)
  /\ NextRow
  /\ UNCHANGED <<imports, at>>

Backwards ==  \* mutant of Exchange: a file is moved before those that import it
  /\ at = "for" /\ i < Size /\ j <= Size
  /\ depends(sources[j], sources[i])
  /\ sources' = Swapped(sources, i, j)
  /\ sorted' = FALSE
  /\ NextRow
  /\ UNCHANGED <<imports, at>>

\* The files change places, and the inner loop ends.
Exchange ==
  /\ at = "for" /\ i < Size /\ j <= Size
  /\ depends(sources[i], sources[j])
  /\ sources' = Swapped(sources, i, j)
  /\ sorted' = FALSE
  /\ NextRow
  /\ UNCHANGED <<imports, at>>

Compare ==
  /\ at = "for" /\ i < Size /\ j <= Size
  /\ ~depends(sources[i], sources[j])
  /\ j' = j + 1
  /\ UNCHANGED <<imports, sources, sorted, i, at>>

EndRow ==
  /\ at = "for" /\ i < Size /\ j > Size
  /\ NextRow
  /\ UNCHANGED <<imports, sources, sorted, at>>

EndPass ==
  /\ at = "for"
  /\ i >= Size
  /\ at' = "while"
  /\ UNCHANGED <<imports, sources, sorted, i, j>>

Next == StartPass \/ Leave \/ Exchange \/ Compare \/ EndRow \/ EndPass

Spec == Init /\ [][Next]_vars
FairSpec == Spec /\ WF_vars(Next)

-----------------------------------------------------------------------------
(***************************************************************************)
(* Properties.                                                              *)
(***************************************************************************)

\* newSchema gets each file after all that it imports.
ImportedFirst ==
  at = "done" => \A k, l \in 1..Size : k < l => ~depends(sources[k], sources[l])

\* An exchange leaves the places before it alone, and gives its own place to a
\* file that the holder imports: the order of the lists, by their first
\* difference, that makes the sort end when the imports have no cycle.
Descends(old, new) ==
  \E k \in 1..Size : /\ depends(old[k], new[k])
                     /\ \A l \in 1..(k - 1) : new[l] = old[l]
ExchangesDescend == [][sources' # sources => Descends(sources, sources')]_vars

\* There is an order: among any files one imports none of the others.
Orderable ==
  \A S \in SUBSET Files :
    S # {} => \E f \in S : \A g \in S \ {f} : <<f, g>> \notin imports

\* The exchanges come to an end when the files can be ordered: the first place is
\* given to a file that its holder imports until there is none, then the second.
\* Otherwise they never do (ImportedFirst), and no document is read or written.
SortEnds == Orderable ~> at = "done"
=============================================================================
