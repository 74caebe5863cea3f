---------------------------- MODULE ChunkPacking ----------------------------
(***************************************************************************)
(* Chunk::insert, pack and try_unpack (removal_record/chunk.rs): the sorted *)
(* relative indices of a chunk, packed as 12-bit elements behind a length   *)
(* indicator of one or two elements into 32-bit words.  The widths are      *)
(* parameters; instances keep their ratio, 3 to 8, so that elements cross   *)
(* word boundaries as in the code.                                          *)
(***************************************************************************)
EXTENDS Integers, Sequences, TLC

CONSTANTS ElemBits, WordBits,
          MaxPacked,     \* MAX_PACKED_LENGTH
          MaxIndices,    \* bound on the chunk
          MaxTampered    \* packed length up to which every one-word change is tried

VARIABLE chunk           \* Chunk.relative_indices
cvars == <<chunk>>

SeqC == INSTANCE SequencesExt

Elems == 2^ElemBits            \* CHUNK_SIZE
LongLengthFlag == 2^(ElemBits - 1)
Words == 0 .. 2^WordBits - 1

CInit == chunk = <<>>
Insert(x) ==
    /\ Len(chunk) < MaxIndices
    /\ chunk' = SortSeq(Append(chunk, x), <)
CNext == \E x \in 0 .. Elems - 1 : Insert(x)

-----------------------------------------------------------------------------
(* pack_with_length_encoding on [words, width, current].                    *)
PackElement(s, e) ==
    LET width == s.width + ElemBits
        current == s.current * Elems + e
        rest == width % WordBits
    IN IF width < WordBits THEN [s EXCEPT !.width = width, !.current = current]
       ELSE [words |-> Append(s.words, current \div 2^rest),
             width |-> rest, current |-> current % 2^rest]

PackElements(elements) ==
    LET s == SeqC!FoldLeft(PackElement, [words |-> <<>>, width |-> 0, current |-> 0], elements)
    IN IF s.width = 0 THEN s.words
       ELSE Append(s.words, s.current * 2^(WordBits - s.width))

(* MUTANT: a length equal to the flag still takes the short form            *)
LengthEncodingFlag(n) ==
    IF n <= LongLengthFlag THEN <<n>>
    ELSE <<LongLengthFlag + n \div Elems, n % Elems>>

LengthEncoding(n) ==
    IF n < LongLengthFlag THEN <<n>>
    ELSE <<LongLengthFlag + n \div Elems, n % Elems>>

PackChunk(c) == IF c = <<>> THEN <<>> ELSE PackElements(LengthEncoding(Len(c)) \o c)

-----------------------------------------------------------------------------
(* try_unpack: the length indicator of the first word...                    *)
Indicator(words) ==
    LET first == words[1] \div 2^(WordBits - ElemBits)
        second == (words[1] \div 2^(WordBits - 2 * ElemBits)) % Elems
    IN IF first < LongLengthFlag THEN [length |-> first, elements |-> 1]
       ELSE [length |-> (first % LongLengthFlag) * Elems + second, elements |-> 2]

(* ...the elements, word by word: the inner loop takes the top ElemBits     *)
(* bits as long as there are enough and elements remain...                  *)
RECURSIVE Take(_)
Take(s) ==
    LET shift == s.width - ElemBits
    IN IF s.width < ElemBits \/ s.remaining = 0 THEN s
       ELSE Take([s EXCEPT !.out = Append(@, (s.current \div 2^shift) % Elems),
                           !.current = @ % 2^shift, !.width = shift, !.remaining = @ - 1])
UnpackWord(s, w) ==
    Take([s EXCEPT !.current = @ * 2^WordBits + w, !.width = @ + WordBits])

(* ...and the checks that only what pack yields is accepted.                *)
TryUnpack(words) ==
    LET ind == Indicator(words)
        total == ind.length + ind.elements
        used == (total * ElemBits) % WordBits
        tail == IF used = 0 THEN 0 ELSE WordBits - used
        s == SeqC!FoldLeft(UnpackWord, [out |-> <<>>, current |-> 0, width |-> 0,
                                        remaining |-> total], words)
    IN IF words = <<>> THEN [ok |-> TRUE, chunk |-> <<>>]
       ELSE IF \/ Len(words) > MaxPacked
               \/ ind.length = 0
               \/ ind.elements = 2 /\ ind.length < LongLengthFlag
               \/ (total * ElemBits + WordBits - 1) \div WordBits # Len(words)
               \/ words[Len(words)] % 2^tail # 0
            THEN [ok |-> FALSE, chunk |-> <<>>]
            ELSE [ok |-> TRUE, chunk |-> SubSeq(s.out, ind.elements + 1, Len(s.out))]

-----------------------------------------------------------------------------
(* try_unpack inverts pack for every chunk, at every alignment of elements  *)
(* and words and on both sides of the switch to the long length indicator.  *)
UnpackInvertsPack ==
    /\ \A i \in DOMAIN PackChunk(chunk) : PackChunk(chunk)[i] \in Words
    /\ TryUnpack(PackChunk(chunk)) = [ok |-> TRUE, chunk |-> chunk]

(* A non-empty chunk has one packed form: whatever single word of it is      *)
(* changed, cut off or added, try_unpack refuses the result or reads a      *)
(* chunk that packs to exactly these words.                                 *)
PackedFormIsUnique ==
    LET words == PackChunk(chunk)
        Canonical(ws) == TryUnpack(ws).ok => PackChunk(TryUnpack(ws).chunk) = ws
    IN chunk # <<>> /\ Len(words) <= MaxTampered =>
          \A w \in Words : /\ \A i \in DOMAIN words : Canonical([words EXCEPT ![i] = w])
                           /\ Canonical(Append(words, w))
                           /\ Canonical(SeqC!Front(words))

(* Packing loses nothing and has one form: a round trip gives the chunk     *)
(* back, and no other word sequence one edit away unpacks.                  *)
PackingIsExact == UnpackInvertsPack /\ PackedFormIsUnique
=============================================================================
