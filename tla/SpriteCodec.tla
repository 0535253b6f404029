---------------------------- MODULE SpriteCodec ----------------------------
(***************************************************************************)
(* Decoding the sprites of a ghost (tama-protocol/src/sprite-parser.ts and  *)
(* heatshrink-tile.ts): the header, the palettes, the three compressions,   *)
(* the bits of a tile and the place of a tile in its sheet.                 *)
(*                                                                          *)
(* Pure functions, checked against what an encoder of the same format would *)
(* have meant.  A byte is a number, a colour a palette index.               *)
(***************************************************************************)
EXTENDS Integers, Sequences, SequencesExt, FiniteSets, FiniteSetsExt, Bitwise

CONSTANT MAX_DECOMPRESSED   \* cells a decompression may yield; 65536 bytes in the code

Upto(s, n) == SubSeq(s, 1, Min({n, Len(s)}))
After(s, n) == SubSeq(s, n + 1, Len(s))

-----------------------------------------------------------------------------
(* Run lengths                                                              *)

\* A control cell: its top bit tells copied cells from a repeated one.  (The
\* count has 7 bits in a byte and 28 in a word; 7 here.)
TOP == 128
Copies(control) == control >= TOP
Count(control) == control % TOP

\* decompressBytewise() and decompressWordwise(), the loop: a cell is a byte or
\* a word (a partial word at the end is never read).  Only the word form skips
\* a control of no cells without taking a value.
RECURSIVE Decompress(_, _, _)
Decompress(data, out, wordwise) ==
    IF data = <<>> \/ Len(out) >= MAX_DECOMPRESSED THEN out
    ELSE LET n == Min({Count(data[1]), MAX_DECOMPRESSED - Len(out)})
             rest == Tail(data)
         IN  IF wordwise /\ n = 0 THEN Decompress(rest, out, wordwise)
             ELSE IF Copies(data[1]) THEN Decompress(After(rest, n), out \o Upto(rest, n), wordwise)
             ELSE IF rest = <<>> THEN out
             ELSE Decompress(Tail(rest), out \o [i \in 1..n |-> rest[1]], wordwise)
decompressBytewise(data) == Decompress(data, <<>>, FALSE)
decompressWordwise(data) == Decompress(data, <<>>, TRUE)

\* What an encoder writes for a piece, and what it means.
Piece == {<<7>>, <<7, 130>>, <<5, 5, 5>>, <<>>, <<9, 9>>, <<1, 2, 3>>}
Coded(piece, run, wordwise) ==
    IF run /\ wordwise /\ piece = <<>> THEN <<0>>
    ELSE IF run THEN <<Len(piece), IF piece = <<>> THEN 4 ELSE piece[1]>>
    ELSE <<TOP + Len(piece)>> \o piece
Even(piece) == \A i \in 1..Len(piece) : piece[i] = piece[1]

\* A compressed tile yields what was compressed, cut at the cap, and a tile that
\* is cut off anywhere yields a beginning of it.
RunsExpand ==
    \A pieces \in SeqOf(Piece, 3), runs \in [1..3 -> BOOLEAN], wordwise \in BOOLEAN :
        (\A i \in 1..Len(pieces) : runs[i] => Even(pieces[i])) =>
        LET data == FoldLeftDomain(LAMBDA d, i : d \o Coded(pieces[i], runs[i], wordwise), <<>>, pieces)
            meant == Upto(FlattenSeq(pieces), MAX_DECOMPRESSED)
            Read(d) == IF wordwise THEN decompressWordwise(d) ELSE decompressBytewise(d)
        IN  /\ Read(data) = meant
            /\ \A n \in 0..Len(data) : IsPrefix(Read(Upto(data, n)), meant)

-----------------------------------------------------------------------------
(* The SHS2 tile                                                            *)

Bits(value, n) == [i \in 1..n |-> (value \div 2^(n - i)) % 2]
Value(bits) == FoldLeft(LAMBDA v, b : 2 * v + b, 0, bits)
Zeros(s) == \A i \in 1..Len(s) : s[i] = 0
Failed == [ok |-> FALSE, out |-> <<>>]

\* One backreference, cell by cell: it may overlap what it writes, and reads 0
\* before the beginning.
RECURSIVE Copied(_, _, _)
Copied(out, distance, count) ==
    IF count = 0 THEN out
    ELSE Copied(Append(out, IF distance > Len(out) THEN 0 ELSE out[Len(out) - distance + 1]), distance, count - 1)

\* decodeHeatshrinkTile(), the loop over the bits and what may remain of them.
RECURSIVE Decode(_, _, _)
Decode(bits, out, length) ==
    IF Len(out) >= length
    THEN IF Len(bits) > 7 \/ ~Zeros(bits) THEN Failed ELSE [ok |-> TRUE, out |-> out]
    ELSE IF bits = <<>> THEN Failed
    ELSE IF bits[1] = 1
    THEN IF Len(bits) < 9 THEN Failed
         ELSE Decode(After(bits, 9), Append(out, Value(SubSeq(bits, 2, 9))), length)
    ELSE IF Len(bits) < 13 THEN Failed
    ELSE LET distance == Value(SubSeq(bits, 2, 9)) + 1
             count == Value(SubSeq(bits, 10, 13)) + 1
         IN  IF count > length - Len(out) THEN Failed
             ELSE Decode(After(bits, 13), Copied(out, distance, count), length)

MAGIC == <<83, 72, 83, 50, 84, 83, 84, 33>>
hasHeatshrinkMarker(data) == IsPrefix(MAGIC, data)

MAX_TILE_LENGTH == 16384
HEADER_LENGTH == 12
\* A tile: the marker, the two lengths, the coded bytes and at most three zeros.
decodeHeatshrinkTile(tile, capacity) ==
    LET compressed == tile[9] + 256 * tile[10]
        length == tile[11] + 256 * tile[12]
        end == HEADER_LENGTH + compressed
        encoded == SubSeq(tile, HEADER_LENGTH + 1, end)
    IN  IF \/ ~hasHeatshrinkMarker(tile) \/ Len(tile) < HEADER_LENGTH
           \/ capacity <= 0 \/ capacity > MAX_TILE_LENGTH \/ length <= 0 \/ length > capacity
           \/ compressed = 0 \/ Len(tile) > MAX_TILE_LENGTH \/ end > Len(tile) \/ Len(tile) - end > 3
           \/ ~Zeros(After(tile, end))
        THEN Failed
        ELSE Decode(FlattenSeq([i \in 1..Len(encoded) |-> Bits(encoded[i], 8)]), <<>>, length)

TileItems == {[lit |-> TRUE, a |-> 5, b |-> 0], [lit |-> TRUE, a |-> 250, b |-> 0],
          [lit |-> FALSE, a |-> 1, b |-> 3], [lit |-> FALSE, a |-> 2, b |-> 1], [lit |-> FALSE, a |-> 256, b |-> 16]}
CodedItem(item) == IF item.lit THEN <<1>> \o Bits(item.a, 8)
                   ELSE <<0>> \o Bits(item.a - 1, 8) \o Bits(item.b - 1, 4)
\* What the items mean: cell n of a backreference is the cell `distance` before
\* it, of the whole output.
Meant(items) ==
    LET size == FoldLeft(LAMBDA n, item : n + (IF item.lit THEN 1 ELSE item.b), 0, items)
        Begin(k) == FoldLeft(LAMBDA n, item : n + (IF item.lit THEN 1 ELSE item.b), 0, Upto(items, k - 1))
        ItemOf(n) == Max({k \in 1..Len(items) : Begin(k) < n})
        cell[n \in 1..size] ==
            LET item == items[ItemOf(n)]
            IN  IF item.lit THEN item.a ELSE IF item.a >= n THEN 0 ELSE cell[n - item.a]
    IN  [n \in 1..size |-> cell[n]]

\* What an encoder writes for some items.
LittleEndian(n) == <<n % 256, n \div 256>>
Envelope(bytes, compressed, length, after) ==
    MAGIC \o LittleEndian(compressed) \o LittleEndian(length) \o bytes \o after
CodedBits(items) == FlattenSeq([i \in 1..Len(items) |-> CodedItem(items[i])])
Padding(bits) == (8 - (Len(bits) % 8)) % 8
Packed(bits) ==
    LET padded == bits \o [i \in 1..Padding(bits) |-> 0]
    IN  [i \in 1..(Len(padded) \div 8) |-> Value(SubSeq(padded, 8 * i - 7, 8 * i))]

\* A tile yields what was compressed; one that is cut off, goes on too long, has
\* a wrong length, no marker or padding that is not zero is refused.
TilesDecode ==
    \A items \in SeqOf(TileItems, 3) \ {<<>>} :
        LET bits == CodedBits(items)
            bytes == Packed(bits)
            n == Len(bytes)
            out == Meant(items)
            tile == Envelope(bytes, n, Len(out), <<0>>)
        IN  /\ decodeHeatshrinkTile(tile, Len(out)) = [ok |-> TRUE, out |-> out]
            /\ \A bad \in {Envelope(Front(bytes), n - 1, Len(out), <<>>), Envelope(Front(bytes), n, Len(out), <<>>),
                           Envelope(bytes, n + 1, Len(out), <<0>>), Upto(tile, HEADER_LENGTH - 1),
                           Envelope(bytes, n, Len(out) + 1, <<>>), Envelope(bytes, n, Len(out) - 1, <<>>),
                           Envelope(bytes, n, Len(out), <<0, 1>>), Envelope(bytes, n, Len(out), <<0, 0, 0, 0>>),
                           [tile EXCEPT ![Len(MAGIC)] = 32]}
                 \cup (IF Padding(bits) = 0 THEN {} ELSE {[tile EXCEPT ![HEADER_LENGTH + n] = @ + 1]}) :
                  decodeHeatshrinkTile(bad, Len(out) + 1) = Failed
            /\ \A capacity \in {0, Len(out) - 1, MAX_TILE_LENGTH + 1} : decodeHeatshrinkTile(tile, capacity) = Failed

-----------------------------------------------------------------------------
(* Tiles out of the package                                                 *)

decrypt(data) == [i \in 1..Len(data) |-> data[i] ^^ 83]
bytesPerSprite(h) == (h.spriteWidthPx * h.spriteHeightPx * h.bpp + 7) \div 8

\* getUncompressedPixelData(): a tile the data does not reach is padded, and then decrypted.
getUncompressedPixelData(data, h) ==
    LET size == bytesPerSprite(h)
        Tile(j) == LET got == SubSeq(data, size * (j - 1) + 1, Min({size * j, Len(data)}))
                   IN  got \o [i \in 1..(size - Len(got)) |-> 0]
    IN  [j \in 1..h.numSprites |-> IF h.isEncrypted THEN decrypt(Tile(j)) ELSE Tile(j)]

\* Faulty variant: the marker is looked for in what the decryption yields.
PixelsDecrypted(tile, h) ==
    LET native == IF h.isEncrypted THEN decrypt(tile) ELSE tile
    IN  IF h.compression = "Bytewise" /\ hasHeatshrinkMarker(native)
        THEN decodeHeatshrinkTile(native, bytesPerSprite(h))
        ELSE [ok |-> TRUE, out |-> IF h.compression = "Bytewise" THEN decompressBytewise(native)
                                   ELSE decompressWordwise(native)]
\* The pixels of one compressed tile.  The marker of an SHS2 tile is looked for in
\* the bytes as they lie in the package, and what has it is never decrypted.
Pixels(tile, h) ==
    LET native == IF h.isEncrypted THEN decrypt(tile) ELSE tile
    IN  IF h.compression = "Bytewise" /\ hasHeatshrinkMarker(tile)
        THEN decodeHeatshrinkTile(tile, bytesPerSprite(h))
        ELSE [ok |-> TRUE, out |-> IF h.compression = "Bytewise" THEN decompressBytewise(native)
                                   ELSE decompressWordwise(native)]

\* getCompressedPixelData(): an entry that points outside is left out; one whose
\* tile runs over the end, or a tile that is refused, is an error.  `entries` are
\* the numbers of the table at the beginning of the data.
getCompressedPixelData(entries, data, h) ==
    LET read == Upto(entries, Min({h.numSprites, Len(data) \div 8}))
        inside == SelectSeq(read, LAMBDA e : e.at >= 0 /\ e.at < Len(data))
        tiles == [i \in 1..Len(inside) |->
                     Pixels(SubSeq(data, inside[i].at + 1, inside[i].at + inside[i].size), h)]
    IN  IF \/ \E i \in 1..Len(inside) : inside[i].size < 0 \/ inside[i].size > Len(data) - inside[i].at
           \/ \E i \in 1..Len(tiles) : ~tiles[i].ok
        THEN Failed ELSE [ok |-> TRUE, out |-> [i \in 1..Len(tiles) |-> tiles[i].out]]

\* What an encoder puts into a package for a tile, and what it means: run lengths,
\* encrypted or not; an SHS2 tile, never encrypted; and run lengths that begin
\* with the bytes of the marker, which only the encryption hides.
Runs(count, cell) == [i \in 1..count |-> cell]
Tiles(encrypted) ==
    LET Stored(bytes) == IF encrypted THEN decrypt(bytes) ELSE bytes
        items == <<[lit |-> TRUE, a |-> 5, b |-> 0], [lit |-> FALSE, a |-> 1, b |-> 3]>>
    IN  {[bytes |-> Stored(Coded(piece, FALSE, FALSE)), meant |-> piece] : piece \in {<<7, 130>>, <<1, 2, 3>>}}
        \cup {[bytes |-> Envelope(Packed(CodedBits(items)), Len(Packed(CodedBits(items))), 4, <<>>), meant |-> <<5, 5, 5, 5>>]}
        \cup (IF ~encrypted THEN {}
              ELSE {[bytes |-> decrypt(MAGIC),
                     meant |-> Upto(Runs(83, 72) \o Runs(83, 50) \o Runs(84, 83) \o Runs(84, 33), MAX_DECOMPRESSED)]})

\* Each tile is made of its own bytes of the package and read the way they were
\* written, whatever else is in the table; what the data does not reach of a tile
\* is filled with zeros, and those are decrypted like the rest.
TilesTaken ==
    /\ \A w, n \in 1..3, bpp \in {1, 4, 8}, encrypted \in BOOLEAN, missing \in {0, 1} :
          LET h == [spriteWidthPx |-> w, spriteHeightPx |-> 2, bpp |-> bpp, numSprites |-> n, isEncrypted |-> encrypted]
              plain == [i \in 1..(bytesPerSprite(h) * n - missing) |-> (i * 37) % 256]
              tiles == FlattenSeq(getUncompressedPixelData(IF encrypted THEN decrypt(plain) ELSE plain, h))
          IN  tiles = plain \o Runs(missing, IF encrypted THEN 83 ELSE 0)
    /\ \A encrypted \in BOOLEAN : \A tiles \in SeqOf(Tiles(encrypted), 2) \ {<<>>}, more \in 0..1, before \in BOOLEAN :
          LET count == Len(tiles)
              table == 8 * (count + 1)
              At(i) == table + FoldLeft(LAMBDA a, t : a + Len(t.bytes), 0, Upto(tiles, i - 1))
              data == Runs(table, 0) \o FlattenSeq([i \in 1..count |-> tiles[i].bytes])
              astray == [at |-> IF before THEN -1 ELSE Len(data), size |-> -1]
              entries == <<astray>> \o [i \in 1..count |-> [at |-> At(i), size |-> Len(tiles[i].bytes)]]
              h == [spriteWidthPx |-> 4, spriteHeightPx |-> 1, bpp |-> 8, compression |-> "Bytewise",
                    numSprites |-> count + more, isEncrypted |-> encrypted]
              first == [i \in 1..(count - 1 + more) |-> tiles[i].meant]
          IN  /\ getCompressedPixelData(entries, data, h) = [ok |-> TRUE, out |-> first]
              /\ more = 1 => \A size \in {-1, entries[count + 1].size + 1} :
                    getCompressedPixelData([entries EXCEPT ![count + 1].size = size], data, h) = Failed
    /\ \A piece \in Piece, encrypted, wordwise \in BOOLEAN :
          LET coded == Coded(piece, FALSE, wordwise)
              h == [isEncrypted |-> encrypted, compression |-> IF wordwise THEN "Wordwise" ELSE "Bytewise"]
          IN  Pixels(IF encrypted THEN decrypt(coded) ELSE coded, h) = [ok |-> TRUE, out |-> piece]

-----------------------------------------------------------------------------
(* Colours and pixels                                                       *)

bppMap(enum) == IF enum < 4 THEN 2^enum ELSE 16
\* One channel of parseRGB565(), of `max` + 1 steps.
Channel(value, max) == (2 * 255 * value + max) \div (2 * max)

\* parsePalettes(): colour k of the data in palette k / n at k % n; what is not there is 0.
parsePalettes(data, n, numPalettes) ==
    [p \in 1..numPalettes |-> [c \in 1..n |->
        LET k == (p - 1) * n + c IN IF k <= Len(data) THEN data[k] ELSE 0]]
\* parseSpriteImageAt(): the override, cut or filled up to the sprite's depth.
FirstPalette(own, override, bpp) ==
    IF override = <<>> \/ bpp = 16 THEN own
    ELSE [c \in 1..2^bpp |-> IF c <= Len(override) THEN override[c] ELSE 0]

MAGENTA == -1
\* renderSprite(): the pixels whose bits the data has, low bits first.
renderSprite(data, h, palette) ==
    LET pixels == Min({h.spriteWidthPx * h.spriteHeightPx, (Len(data) * 8) \div h.bpp})
        Bit(k) == (data[k \div 8 + 1] \div 2^(k % 8)) % 2
        Index(p) == FoldLeft(LAMBDA v, i : v + Bit(p * h.bpp + i - 1) * 2^(i - 1), 0, [i \in 1..h.bpp |-> i])
        Colour(index) == IF h.hasTransparency /\ index = h.transparentColorIndex THEN 0
                         ELSE IF index < Len(palette) THEN palette[index + 1] ELSE MAGENTA
    IN  [p \in 1..(h.spriteWidthPx * h.spriteHeightPx) |-> IF p <= pixels THEN Colour(Index(p - 1)) ELSE 0]

\* Each pixel has the colour that the palette, cut or filled to the depth of the
\* sprite, gives its index: none is beyond it, and those the data does not reach
\* are transparent.
PixelsRead ==
    /\ \A enum \in 0..2, own \in {6, 20}, transparent, overridden \in BOOLEAN, missing \in {0, 1} :
          LET bpp == bppMap(enum)
              n == 2^bpp
              h == [spriteWidthPx |-> 3, spriteHeightPx |-> 3, bpp |-> bpp,
                    hasTransparency |-> transparent, transparentColorIndex |-> 1]
              packed == (9 * bpp + 7) \div 8
              index == [p \in 0..((8 \div bpp) * packed - 1) |-> IF p < 9 THEN (p * 7 + 1) % n ELSE 0]
              data == [b \in 1..(packed - missing) |->
                          FoldLeft(LAMBDA v, i : v + index[(b - 1) * (8 \div bpp) + i - 1] * n^(i - 1), 0, [i \in 1..(8 \div bpp) |-> i])]
              colours == parsePalettes([c \in 1..own |-> 100 + c], n, 1)[1]
              palette == FirstPalette(colours, IF overridden THEN [c \in 1..16 |-> 200 + c] ELSE <<>>, bpp)
              image == renderSprite(data, h, palette)
          IN  \A p \in 1..9 :
                image[p] = IF p > Len(data) * (8 \div bpp) \/ (transparent /\ index[p - 1] = 1) THEN 0
                           ELSE IF overridden THEN 201 + index[p - 1]
                           ELSE IF index[p - 1] < own THEN 101 + index[p - 1] ELSE 0
    /\ \A max \in {31, 63} : Channel(0, max) = 0 /\ Channel(max, max) = 255
                             /\ \A v \in 1..max : Channel(v, max) > Channel(v - 1, max)

-----------------------------------------------------------------------------
(* Tiles in the sheet                                                       *)

numSubimages(h) == IF h.imageWidth * h.imageHeight > 0 THEN h.numSprites \div (h.imageWidth * h.imageHeight) ELSE 0
\* renderSpritesheet(): where each tile that is there is drawn, `count` of them.
renderSpritesheet(count, h) ==
    LET perImage == h.imageWidth * h.imageHeight
        drawn == 0..(Min({count, numSubimages(h) * perImage}) - 1)
    IN  [width |-> Max({1, numSubimages(h) * h.imageWidth * h.spriteWidthPx}),
         height |-> Max({1, h.imageHeight * h.spriteHeightPx}),
         tiles |-> [i \in drawn |->
             [x |-> (i \div perImage) * h.imageWidth * h.spriteWidthPx + ((i % perImage) % h.imageWidth) * h.spriteWidthPx,
              y |-> ((i % perImage) \div h.imageWidth) * h.spriteHeightPx]]]
\* renderFirstFrame(): the tiles of the first image alone.
renderFirstFrame(count, h) ==
    [width |-> Max({1, h.imageWidth * h.spriteWidthPx}), height |-> Max({1, h.imageHeight * h.spriteHeightPx}),
     tiles |-> [i \in 0..(Min({count, h.imageWidth * h.imageHeight}) - 1) |->
         [x |-> (i % h.imageWidth) * h.spriteWidthPx, y |-> (i \div h.imageWidth) * h.spriteHeightPx]]]

\* Every tile lies in its image, no two on the same pixel, and the first image of
\* the sheet is the first frame.
SheetsHold ==
    \A iw, ih \in 0..2, w, h \in 1..2, n \in 0..9, lost \in 0..2 :
        LET hd == [imageWidth |-> iw, imageHeight |-> ih, spriteWidthPx |-> w, spriteHeightPx |-> h, numSprites |-> n]
            sheet == renderSpritesheet(n - lost, hd)
            frame == renderFirstFrame(n - lost, hd)
            At(s, i) == {<<s.tiles[i].x + a, s.tiles[i].y + b>> : a \in 0..(w - 1), b \in 0..(h - 1)}
        IN  /\ \A s \in {sheet, frame} :
                  /\ \A i \in DOMAIN s.tiles : At(s, i) \subseteq (0..(s.width - 1)) \X (0..(s.height - 1))
                  /\ \A i, j \in DOMAIN s.tiles : i # j => At(s, i) \cap At(s, j) = {}
            /\ \A i \in DOMAIN sheet.tiles \cap DOMAIN frame.tiles : sheet.tiles[i] = frame.tiles[i]
            /\ numSubimages(hd) > 0 => DOMAIN frame.tiles \subseteq DOMAIN sheet.tiles

SpritesRead == RunsExpand /\ TilesDecode /\ TilesTaken /\ PixelsRead /\ SheetsHold
=============================================================================
