------------------------------ MODULE Chunking ------------------------------
(***************************************************************************)
(* split_into_chunks (documentstorage.rs): the sentences and words of a    *)
(* file, its atoms, are packed into chunks of at most max_chars; a chunk   *)
(* begins with the last atoms of the one before, as far as they fit into   *)
(* overlap_chars.                                                          *)
(*                                                                         *)
(* A text is where its atoms end: the atoms i+1..j of it have              *)
(* ends[j] - ends[i] characters.                                           *)
(***************************************************************************)
EXTENDS Integers, Sequences

CONSTANT
    Inputs      \* of split_into_chunks

\* No atom is empty.  An atom may be longer than max_chars: a word that is cut
\* within max_chars bytes keeps the whole of its last character.
ASSUME InputsAssumption ==
    \A input \in Inputs :
        /\ input.n \in Nat
        /\ input.ends \in [0..input.n -> Nat]
        /\ input.ends[0] = 0
        /\ \A i \in 1..input.n : input.ends[i - 1] < input.ends[i]
        /\ input.max_chars \in Nat \ {0}
        /\ input.overlap \in Nat

VARIABLES
    text,                           \* the input
    win_start, win_end, win_len,    \* the window: atoms win_start+1..win_end
    overlap_end,                    \* atoms after it are new in this chunk
    new_start, kept_len,            \* the tail that is kept, while sliding
    pc,                             \* "extend", "slide" or "done"
    packed                          \* the chunks: <<[from, to]>>, as the window was

window    == <<win_start, win_end, win_len, overlap_end>>
slide     == <<new_start, kept_len>>
splitVars == <<text, window, slide, pc, packed>>

Atoms   == text.n
Ends    == text.ends
Len1(i) == Ends[i + 1] - Ends[i]       \* of the atom after i

\* An overlap of the whole chunk would keep it from moving on.
overlap_chars ==
    IF text.overlap < text.max_chars THEN text.overlap ELSE text.max_chars - 1

SplitTypeOK ==
    /\ text \in Inputs
    /\ win_start \in 0..Atoms /\ win_end \in 0..Atoms /\ overlap_end \in 0..Atoms /\ new_start \in 0..Atoms
    /\ win_len \in Nat /\ kept_len \in Nat
    /\ pc \in {"extend", "slide", "done"}
    /\ packed \in Seq([from : 0..Atoms, to : 0..Atoms])

SplitInit ==
    /\ text \in Inputs
    /\ win_start = 0 /\ win_end = 0 /\ win_len = 0 /\ overlap_end = 0
    /\ new_start = 0 /\ kept_len = 0
    /\ pc = IF Atoms = 0 THEN "done" ELSE "extend"
    /\ packed = <<>>

\* The first new atom is taken whatever its length.
Fits == win_end = overlap_end \/ win_len + Len1(win_end) <= text.max_chars

Extend ==
    /\ pc = "extend" /\ win_end < Atoms /\ Fits
    /\ win_len' = win_len + Len1(win_end)
    /\ win_end' = win_end + 1
    /\ UNCHANGED <<text, win_start, overlap_end, slide, pc, packed>>

\* The chunk is complete; with atoms left, the window slides on.
Emit ==
    /\ pc = "extend" /\ ~(win_end < Atoms /\ Fits)
    /\ packed' = Append(packed, [from |-> win_start, to |-> win_end])
    /\ pc' = IF win_end = Atoms THEN "done" ELSE "slide"
    /\ new_start' = win_end /\ kept_len' = 0
    /\ UNCHANGED <<text, window>>

\* Tails that leave nothing but the first atom behind are not kept.
SlipMayKeep == new_start > win_start + 1 /\ kept_len <= overlap_chars

MayKeep ==
    /\ new_start > win_start + 1
    /\ kept_len + Len1(new_start - 1) <= overlap_chars

Keep ==
    /\ pc = "slide" /\ MayKeep
    /\ kept_len' = kept_len + Len1(new_start - 1)
    /\ new_start' = new_start - 1
    /\ UNCHANGED <<text, window, pc, packed>>

\* The window begins one atom too far.
SlipSlide ==
    /\ pc = "slide" /\ ~MayKeep
    /\ overlap_end' = win_end
    /\ win_start' = new_start + 1 /\ win_len' = kept_len
    /\ pc' = "extend"
    /\ UNCHANGED <<text, win_end, slide, packed>>

Slide ==
    /\ pc = "slide" /\ ~MayKeep
    /\ overlap_end' = win_end
    /\ win_start' = new_start /\ win_len' = kept_len
    /\ pc' = "extend"
    /\ UNCHANGED <<text, win_end, slide, packed>>

SplitNext == Extend \/ Emit \/ Keep \/ Slide

SplitSpec == SplitInit /\ [][SplitNext]_splitVars

-----------------------------------------------------------------------------
\* Nothing of the text is lost, and no chunk is there for nothing: the first
\* begins with the text, each begins after the one before it began, not after
\* it ended, and goes further; the last one ends with the text.
TextIsCovered ==
    /\ \A k \in 1..Len(packed) :
          IF k = 1 THEN packed[k].from = 0 /\ packed[k].to > 0
          ELSE /\ packed[k].from \in (packed[k - 1].from + 1)..packed[k - 1].to
               /\ packed[k].to > packed[k - 1].to
    /\ pc = "done" => IF packed = <<>> THEN Atoms = 0 ELSE packed[Len(packed)].to = Atoms

\* A chunk repeats no more than overlap_chars of the one before, and is no
\* longer than max_chars, unless that would leave it no more than one atom
\* that is new.
ChunksAreBounded ==
    \A k \in 1..Len(packed) :
        LET old == IF k = 1 THEN 0 ELSE packed[k - 1].to IN
        /\ Ends[old] - Ends[packed[k].from] <= overlap_chars
        /\ \/ Ends[packed[k].to] - Ends[packed[k].from] <= text.max_chars
           \/ packed[k].to = old + 1
=============================================================================
