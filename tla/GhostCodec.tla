----------------------------- MODULE GhostCodec -----------------------------
(***************************************************************************)
(* Reading what toys exchange: the ghost (tama-protocol/src/ghost.ts,       *)
(* ghost-name.ts, paradise-chars.ts), its picture (ghost-render.ts,         *)
(* ghost-placement.ts, web-client ghost-compositor.ts), the play data       *)
(* behind it and the payloads of a gift (play-data.ts, gift.ts).            *)
(*                                                                          *)
(* Pure functions, checked over the boundaries of their inputs.  Offsets    *)
(* and lengths are the code's own; a field is where it lies and how long it *)
(* is, and of an image only its size and its corner count.                  *)
(***************************************************************************)
EXTENDS Integers, Sequences, SequencesExt, FiniteSets, FiniteSetsExt

GHOST_SIZE == 131072
GHOST_HEADER_USED_LENGTH == 384
GHOST_COMPOSITES_OFFSET == 1536
GHOST_COMPOSITES_END == 7476

-----------------------------------------------------------------------------
(* Where the fields lie                                                     *)

Field(at, size) == [at |-> at, size |-> size]
spriteTableOffsetForType(type) == IF type = 0 THEN 272 ELSE 264
SpriteEntry(type, i) == Field(spriteTableOffsetForType(type) + i * 8, 8)

NAME_OFFSET == 18
NAME_LANG_SIZE == 26
Languages == 9
NameOf(language) == Field(NAME_OFFSET + language * NAME_LANG_SIZE, NAME_LANG_SIZE)

\* parseGhost() of a type-0 ghost: checksum, complement, flags, charaId,
\* eyeCharaId, color, the names, stage, speciesRank, charaFlags, totalLength,
\* the sprite table and the palettes.
GhostFields ==
    <<Field(0, 4), Field(4, 4), Field(8, 4), Field(12, 2), Field(14, 2), Field(16, 1)>>
    \o [i \in 1..Languages |-> NameOf(i - 1)]
    \o <<Field(252, 2), Field(254, 2), Field(256, 4), Field(268, 4)>>
    \o [i \in 1..6 |-> SpriteEntry(0, i - 1)] \o <<Field(320, 32), Field(352, 32)>>

PLAY_DATA_LENGTH == 20
\* forceSendAway, romType, deviceUid, charaUid, friendship, result, hunger, happiness, isInLove
encodePlayData ==
    <<Field(0, 2), Field(2, 2), Field(4, 4), Field(8, 4), Field(12, 2), Field(14, 2),
      Field(16, 1), Field(17, 1), Field(18, 2)>>
decodePlayData ==
    <<Field(0, 2), Field(2, 2), Field(4, 4), Field(8, 4), Field(12, 2), Field(14, 2),
      Field(16, 1), Field(17, 1), Field(18, 2)>>

\* The phase of a gift follows from the length of its payload.
BuiltGift(phase) == IF phase = "version" THEN 4 ELSE 2
parseGiftPayload(length) == CASE length = 4 -> "version" [] length = 2 -> "item" [] OTHER -> "error"

Apart(fields) ==
    \A i, j \in 1..Len(fields) :
        i < j => fields[i].at + fields[i].size <= fields[j].at \/ fields[j].at + fields[j].size <= fields[i].at
Within(fields, size) == \A i \in 1..Len(fields) : fields[i].at + fields[i].size <= size

\* No two fields share a byte and all lie in what was received; what is written
\* is read back from where it was written; the phases of a gift are told apart.
LayoutsHold ==
    /\ Apart(GhostFields) /\ Within(GhostFields, GHOST_HEADER_USED_LENGTH)
    /\ decodePlayData = encodePlayData /\ Apart(decodePlayData)
    /\ FoldLeft(LAMBDA n, f : n + f.size, 0, decodePlayData) = PLAY_DATA_LENGTH
    /\ \A phase \in {"version", "item"} : parseGiftPayload(BuiltGift(phase)) = phase

-----------------------------------------------------------------------------
(* Names                                                                    *)

CJK_OFFSET == 481
CJK_CHARSET == 9162
\* buildTable(): explicit entries, the symbols, the CJK run, and ASCII where
\* nothing is yet.
HasGlyph(index) ==
    \/ index \in 2..13 \/ index \in 15..300 \/ index \in 305..429 \/ index \in 432..462
    \/ index \in CJK_OFFSET..(CJK_OFFSET + CJK_CHARSET - 1)

\* decodeString(): up to the terminator; an index without a glyph is skipped.
decodeString(indices) ==
    LET end == {i \in 1..Len(indices) : indices[i] = 0}
        text == IF end = {} THEN indices ELSE SubSeq(indices, 1, Min(end) - 1)
    IN  SelectSeq(text, LAMBDA i : HasGlyph(i))

\* A name is its glyphs before the terminator, in order, whatever follows it in
\* its slot and whatever it holds that the table does not know.
NamesRead ==
    \A name \in SeqOf({2, 305, 430, 482}, 3), rest \in SeqOf({0, 16}, 2) :
        decodeString(name \o <<0>> \o rest) = SelectSeq(name, LAMBDA i : i # 430)

-----------------------------------------------------------------------------
(* The checksum                                                             *)

\* The words a range is summed over: from its start, in steps of four, while
\* at least four bytes are left.
WordsOf(start, end) == LET n == end - 3 - start IN IF n <= 0 THEN 0 ELSE (n + 3) \div 4

\* calculateGhostChecksum(): an entry that points nowhere is left out, one that
\* runs over the end is cut there.
SpriteRange(entry) ==
    IF entry.offset = 0 \/ entry.offset >= GHOST_SIZE \/ entry.length = 0
    THEN [start |-> 0, words |-> 0]
    ELSE [start |-> entry.offset,
          words |-> WordsOf(entry.offset, Min({entry.offset + entry.length, GHOST_SIZE}))]
calculateGhostChecksum(entry) ==
    <<[start |-> 0, words |-> WordsOf(0, GHOST_HEADER_USED_LENGTH + 3)],
      [start |-> GHOST_COMPOSITES_OFFSET,
       words |-> WordsOf(GHOST_COMPOSITES_OFFSET, GHOST_COMPOSITES_END + 3)], SpriteRange(entry)>>

\* Every whole word of the header, of the composites and of each sprite is
\* summed, once, and none beyond its end or the end of the image: a sprite that
\* runs over it, or whose length is no multiple of four, does no harm.
ChecksumCovers ==
    \A offset \in {0, 7476, GHOST_SIZE - 8, GHOST_SIZE - 4, GHOST_SIZE - 2, GHOST_SIZE, GHOST_SIZE + 4},
       length \in {0, 1, 3, 4, 6, 8, 9} :
        LET entry == [offset |-> offset, length |-> length]
            ranges == calculateGhostChecksum(entry)
            end == Min({offset + length, GHOST_SIZE})
            sprite == ranges[3]
        IN  /\ \A i, j \in 1..3 : i # j /\ ranges[j].words > 0 =>
                  \/ ranges[i].start + 4 * ranges[i].words <= ranges[j].start
                  \/ ranges[j].start + 4 * ranges[j].words <= ranges[i].start
            /\ ranges[1].words * 4 = GHOST_HEADER_USED_LENGTH
            /\ ranges[2].start + ranges[2].words * 4 = GHOST_COMPOSITES_END
            /\ sprite.words > 0 => sprite.start + 4 * sprite.words \in (end - 3)..end
            /\ offset # 0 /\ end - offset >= 4 => sprite.words > 0

-----------------------------------------------------------------------------
(* The picture                                                              *)

Undefined == Field(0, 0)
NoPicture == [width |-> 0, height |-> 0, layers |-> <<>>]

\* extractPart(): a sprite that is not there, or does not parse, is left out.
extractPart(entry, parses) ==
    IF entry.length = 0 \/ entry.offset <= 0 \/ entry.offset >= GHOST_SIZE \/ ~parses THEN Undefined
    ELSE Field(entry.offset, Min({entry.offset + entry.length, GHOST_SIZE}) - entry.offset)

Trunc(n) == IF n >= 0 THEN n \div 2 ELSE -((-n) \div 2)   \* Math.trunc(n / 2)

\* ghostPlacement(): where eyes and mouth go beside the body.
ghostPlacement(pose, body, part) ==
    [x |-> pose.x, y |-> pose.y + Trunc(body.height - part.height)]

\* layoutGhostPreview(): a canvas that holds the body's origin and every layer.
layoutGhostPreview(parts, pose) ==
    LET Layer(i) ==
            LET p == IF i = 1 THEN [x |-> 0, y |-> 0] ELSE ghostPlacement(pose, parts[1], parts[i])
            IN  [part |-> i, x |-> p.x + parts[i].offsetX, y |-> p.y + parts[i].offsetY,
                 width |-> parts[i].width, height |-> parts[i].height]
        layers == [i \in DOMAIN parts |-> Layer(i)]
        left == Min({0} \cup {layers[i].x : i \in DOMAIN layers})
        top == Min({0} \cup {layers[i].y : i \in DOMAIN layers})
    IN  [width |-> Max({layers[i].x + layers[i].width : i \in DOMAIN layers}) - left,
         height |-> Max({layers[i].y + layers[i].height : i \in DOMAIN layers}) - top,
         layers |-> [i \in DOMAIN layers |-> [layers[i] EXCEPT !.x = @ - left, !.y = @ - top]]]

\* renderGhost() and composeGhostPreviewFromBin(): without a body, or without a
\* pose, there is no picture; precomposed art is the body alone.
composeGhostPreviewFromBin(parts, type, precomposed, active, pose) ==
    IF 1 \notin DOMAIN parts \/ type # 0 \/ (~precomposed /\ 1 \notin active) THEN NoPicture
    ELSE LET drawn == {i \in DOMAIN parts : i = 1 \/ (~precomposed /\ i \in active)}
         IN  layoutGhostPreview([i \in drawn |-> parts[i]], pose)

\* Every sprite that is cut out of the ghost lies in it, whatever its entry says.
PartsInside ==
    \A offset \in {0, 1, 384, GHOST_SIZE - 1, GHOST_SIZE}, length \in {0, 1, 2, GHOST_SIZE} :
        LET part == extractPart([offset |-> offset, length |-> length], TRUE)
        IN  part # Undefined => part.at > 0 /\ part.size > 0 /\ part.at + part.size <= GHOST_SIZE

\* Every layer lies on its canvas, at the distance from the body its geometry
\* gives it, for origins and poses on either side of the body's.
LayersFit ==
    \A drawn \in {d \in SUBSET (1..3) : 1 \in d}, ox, oy, px, py \in {-3, 0, 2}, h \in {1, 4} :
        LET parts == [i \in drawn |-> IF i = 1 THEN [width |-> 3, height |-> 2, offsetX |-> ox, offsetY |-> 1]
                                      ELSE [width |-> i, height |-> h, offsetX |-> -1, offsetY |-> oy]]
            pose == [x |-> px, y |-> py]
            view == composeGhostPreviewFromBin(parts, 0, FALSE, drawn, pose)
        IN  /\ view # NoPicture /\ DOMAIN view.layers = drawn
            /\ \A i \in drawn :
                  /\ view.layers[i].x \in 0..(view.width - parts[i].width)
                  /\ view.layers[i].y \in 0..(view.height - parts[i].height)
                  /\ i # 1 => /\ view.layers[i].x - view.layers[1].x = px - 1 - ox
                              /\ view.layers[i].y - view.layers[1].y = py + Trunc(2 - h) + oy - 1

GhostsRead == LayoutsHold /\ NamesRead /\ ChecksumCovers /\ PartsInside /\ LayersFit
=============================================================================
