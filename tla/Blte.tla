-------------------------------- MODULE Blte --------------------------------
(***************************************************************************)
(* BLTE streams (internal/datafile, internal/decrypt): Encode cuts content  *)
(* into frames, each raw or deflated; the publisher of a build may seal     *)
(* frames under named keys; DecodeSpan undoes all of it, frame by frame.    *)
(*                                                                          *)
(* A cell is a tuple <<kind, ...>>: a byte of content, a mode byte, what    *)
(* zlib made of a chunk, the key name in the header of a sealed frame, a    *)
(* sealed cell, or noise.  The hash of a frame is the frame.                *)
(***************************************************************************)
EXTENDS Naturals, Sequences, SequencesExt, FiniteSetsExt

Byte     == {<<"byte", x>> : x \in 0..255}
Mode(m)  == <<"mode", m>>
ZeroByte == <<"byte", 0>>
Noise    == <<"noise">>
NoTable  == <<>>     \* HeaderSize = 0; a table has at least one frame
MaxDepth == 4      \* decodeStep: depth > 4

Zeros(n) == [i \in 1..n |-> ZeroByte]

------------------------------------------------------------------------------
(* Encode.                                                                  *)

(* zlib pays for content that repeats itself and never for the rest; a      *)
(* frame that would grow is written raw.                                    *)
Deflates(chunk) == Len(chunk) > 1 /\ \A i \in DOMAIN chunk : chunk[i] = chunk[1]

EncodeFrame(mode, chunk) ==
  IF mode = "Z" /\ Deflates(chunk) THEN <<Mode("Z"), <<"deflated", chunk>>>>
                                   ELSE <<Mode("N")>> \o chunk

(* At least one frame, also of no content.                                  *)
Chunks(content, size) ==
  LET count == Max({1, (Len(content) + size - 1) \div size})
  IN [i \in 1..count |-> SubSeq(content, (i - 1) * size + 1, Min({i * size, Len(content)}))]

(* SingleFrameNoHeader puts all content into one frame.                     *)
Pieces(content, opts) == IF opts.single THEN <<content>> ELSE Chunks(content, opts.size)

(* A cell of frame i under the seals of some keys, the last one outermost.   *)
(* The initialisation vector is that of the frame's index, which starts at  *)
(* 0.  The ciphers work byte by byte: noise is noise under any seal.        *)
Under(cell, keys, i) ==
  IF keys = <<>> \/ cell = Noise THEN cell ELSE <<"sealed", keys, i - 1, cell>>

(* What a publisher does to frame i: it seals it under one key after the    *)
(* other.  Each seal puts two cells before what it seals, mode and key name. *)
SealedCell(body, keys, i, j) ==
  LET n == Len(keys)
      layer == n - (j - 1) \div 2
  IN IF j > 2 * n THEN Under(body[j - 2 * n], keys, i)
     ELSE Under(IF j % 2 = 1 THEN Mode("E") ELSE <<"key", keys[layer]>>,
                SubSeq(keys, layer + 1, n), i)

Seal(body, keys, i) ==
  [j \in 1..(2 * Len(keys) + Len(body)) |-> SealedCell(body, keys, i, j)]

(* locks[i]: the keys of frame i; opts: FrameSize, Mode and                 *)
(* SingleFrameNoHeader.                                                     *)
Encode(content, opts, locks) ==
  LET pieces == Pieces(content, opts)
      bodies == [i \in DOMAIN pieces |-> Seal(EncodeFrame(opts.mode, pieces[i]), locks[i], i)]
  IN IF opts.single THEN [table |-> NoTable, data |-> bodies[1]]
     ELSE [table |-> [i \in DOMAIN pieces |-> [encoded |-> Len(bodies[i]),
                                               content |-> Len(pieces[i]), hash |-> bodies[i]]],
           data  |-> FlattenSeq(bodies)]

------------------------------------------------------------------------------
(* ParseHeader: without a table one frame is the rest of the stream, of no  *)
(* known content size and with no hash.                                     *)
NoHash == <<>>       \* FrameHash is zero
FrameTable(stream) ==
  IF stream.table = NoTable
  THEN <<[encoded |-> Len(stream.data), content |-> 0, hash |-> NoHash]>>
  ELSE stream.table

Encoded(stream, i, cursor) ==
  SubSeq(stream.data, cursor + 1, cursor + FrameTable(stream)[i].encoded)

(* Mutant: hashes are not verified.                                         *)
FrameErrorUnhashed(stream, i, cursor) ==
  IF cursor + FrameTable(stream)[i].encoded > Len(stream.data) THEN "corrupt" ELSE "none"

(* Decode up to the first decodeStep: an error, or none.                    *)
FrameError(stream, i, cursor) ==
  LET fr == FrameTable(stream)[i]
  IN IF cursor + fr.encoded > Len(stream.data) THEN "corrupt"
     ELSE IF fr.hash # NoHash /\ fr.hash # Encoded(stream, i, cursor) THEN "corrupt"
     ELSE "none"

(* DecryptFrame under the value the registry has for key k.  The wrong      *)
(* value gives noise, the first byte of which may happen to be a mode.      *)
Unseal(cells, k, value, i) ==
  IF value = "right"
  THEN {[j \in DOMAIN cells |->
           IF cells[j][1] = "sealed" /\ Last(cells[j][2]) = k /\ cells[j][3] = i - 1
           THEN Under(cells[j][4], Front(cells[j][2]), i) ELSE Noise]}
  ELSE {[j \in DOMAIN cells |-> IF j = 1 THEN first ELSE Noise] : first \in {Noise, Mode("N")}}

(* One call of decodeStep for frame i: it ends with the content, ends with  *)
(* an error, or goes on, one level deeper, with what was under the seal.    *)
Out(cells)   == [end |-> "none", out |-> cells]
Fail(err)    == [end |-> err, out |-> <<>>]
Sealed(cells) == [end |-> "sealed", out |-> cells]

(* Mutant: OvercomeEncrypted does not reach the decoder.                    *)
KeyMissingFails(fr, overcome) == {Fail("encrypted")}

KeyMissing(fr, overcome) ==
  IF overcome THEN {Out(Zeros(fr.content))} ELSE {Fail("encrypted")}

DecodeStep(fr, i, cells, depth, keys, overcome) ==
  IF depth > MaxDepth THEN {Fail("corrupt")}
  ELSE IF cells = <<>> THEN {Fail("badformat")}
  ELSE CASE cells[1] = Mode("N") -> {Out(Tail(cells))}
         [] cells[1] = Mode("Z") ->
              IF Len(cells) = 2 /\ cells[2][1] = "deflated"
              THEN LET out == cells[2][2]
                   IN {Out(out \o Zeros(Max({0, fr.content - Len(out)})))}
              ELSE {Fail("corrupt")}
         [] cells[1] = Mode("E") ->
              LET k == cells[2][2]
              IN IF keys[k] # "none"
                 THEN {Sealed(c) : c \in Unseal(SubSeq(cells, 3, Len(cells)), k, keys[k], i)}
                 ELSE KeyMissing(fr, overcome)
         [] OTHER -> {Fail("unsupported")}
==============================================================================
