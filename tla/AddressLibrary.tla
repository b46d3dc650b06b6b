--------------------------- MODULE AddressLibrary ----------------------------
(***************************************************************************)
(* The address library: IDDB maps ids to offsets, Offset2ID offsets to     *)
(* ids, each by a binary search in a table read at the start: for the flat *)
(* game a file that is used as it is, for VR a table that is sorted after  *)
(* it was read, without a game none.  No id is there twice; two ids may    *)
(* have one offset.                                                        *)
(***************************************************************************)
EXTENDS Naturals, Sequences, SequencesExt

CONSTANTS
    Ids,        \* ids a plugin may ask for, numbers
    Offsets,    \* offsets, numbers
    MaxEntries, \* bound: the entries of a file
    Failed      \* report_and_fail: the process has ended

VARIABLES
    runtime,    \* "flat", "vr" or "none", the game the plugin is loaded into
    declared,   \* the number of entries the file says it has
    mapping,    \* the entries as they are searched
    loaded

libraryVars == <<runtime, declared, mapping, loaded>>

Entries == [id : Ids, offset : Offsets]
Files == {f \in UNION {[1..n -> Entries] : n \in 0..MaxEntries} :
             \A i, j \in DOMAIN f : f[i].id = f[j].id => i = j}

\* A plugin is started with some game and some file.
Init ==
    /\ runtime \in {"flat", "vr", "none"}
    /\ mapping \in Files
    /\ declared \in 0..MaxEntries
    /\ loaded = FALSE

\* std::sort of entries of which none is there twice: those with one key are left
\* in any order.
Arrangements(s) == {t \in [DOMAIN s -> Range(s)] : Range(t) = Range(s)}
ById(s) == {t \in Arrangements(s) : \A i, j \in DOMAIN s : i < j => ~(t[j].id < t[i].id)}
ByOffset(s) ==
    {t \in Arrangements(s) : \A i, j \in DOMAIN s : i < j => ~(t[j].offset < t[i].offset)}

\* load_csv: a file with more or fewer rows than it says is refused.
LoadCsv ==
    /\ runtime = "vr" /\ Len(mapping) = declared
    /\ mapping' \in ById(mapping)
    /\ UNCHANGED declared

\* The bin's first word is the number of its entries; the span is not checked
\* against the file's size, so that only whole files are used here.
MapBin ==
    /\ runtime = "flat" /\ Len(mapping) = declared
    /\ UNCHANGED <<mapping, declared>>

NoGame == runtime = "none" /\ mapping' = <<>> /\ UNCHANGED declared

Load ==
    /\ ~loaded
    /\ loaded' = TRUE
    /\ LoadCsv \/ MapBin \/ NoGame
    /\ UNCHANGED runtime

Next == Load

Spec == Init /\ [][Next]_libraryVars
-----------------------------------------------------------------------------
\* std::lower_bound; less[i] says of an entry of the table whether it is below
\* the element searched for.  A range is its first place and its length.
RangesOf(less) ==
    {range \in (1..(Len(less) + 1)) \X (0..Len(less)) : range[1] + range[2] <= Len(less) + 1}

LowerBound(less) ==
    LET search[range \in RangesOf(less)] ==
            LET at == range[1]
                half == range[2] \div 2
            IN  CASE range[2] = 0 -> at
                  [] range[2] > 0 /\ less[at + half] ->
                         search[<<at + half + 1, range[2] - half - 1>>]
                  [] OTHER -> search[<<at, half>>]
    IN  search[<<1, Len(less)>>]

\* IDDB::id2offset.
Id2Offset(id) ==
    LET at == LowerBound([i \in DOMAIN mapping |-> mapping[i].id < id])
    IN  CASE runtime = "none" -> 0
          [] runtime # "none" /\ (at > Len(mapping) \/ (runtime = "vr" /\ mapping[at].id # id)) -> Failed
          [] OTHER -> mapping[at].offset

\* Offset2ID::operator() of a table sorted by offset.
Offset2Id(byOffset, offset) ==
    LET at == LowerBound([i \in DOMAIN byOffset |-> byOffset[i].offset < offset])
    IN  IF at > Len(byOffset) THEN Failed ELSE byOffset[at].id

\* What the table says of an id.
Known(id) == {mapping[i].offset : i \in {j \in DOMAIN mapping : mapping[j].id = id}}

Sorted == \A i, j \in DOMAIN mapping : i < j => mapping[i].id < mapping[j].id

\* VR: an id has its offset, or the process ends.  Flat: in a sorted file, an id
\* it holds has its offset; one it does not hold is given the offset of the next.
\* An offset of the table has one of its ids, any other the id of the next.
LookupsExact ==
    loaded /\ runtime # "none" =>
        /\ runtime = "vr" \/ Sorted =>
             \A id \in Ids :
                LET answer == Id2Offset(id)
                    higher == {k \in Ids : k > id /\ Known(k) # {}}
                IN  IF Known(id) # {} THEN Known(id) = {answer}
                    ELSE IF runtime = "vr" \/ higher = {} THEN answer = Failed
                    ELSE \E k \in higher : Known(k) = {answer} /\ \A j \in higher : k <= j
        /\ \A byOffset \in ByOffset(mapping), offset \in Offsets :
             LET answer == Offset2Id(byOffset, offset)
                 least == {i \in DOMAIN mapping : mapping[i].offset >= offset}
             IN  IF least = {} THEN answer = Failed
                 ELSE \E i \in least : /\ mapping[i].id = answer
                                       /\ \A j \in least : mapping[i].offset <= mapping[j].offset
=============================================================================
