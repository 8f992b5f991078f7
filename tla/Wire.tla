--------------------------------- MODULE Wire ---------------------------------
(***************************************************************************)
(* What happens to the bytes of one file on their way to the server and    *)
(* back: the codecs of crates/proxygit-common/src/protocol.rs, the chunker *)
(* of cdc.rs, and the calls that use them, mcp_write_file_opts and         *)
(* mcp_read_raw_bytes in the client, handle_has_blocks,                    *)
(* handle_write_blocks_sparse and handle_write_blocks in the server.       *)
(*                                                                         *)
(* A byte is a number, and so are a hash and a field of several bytes:     *)
(* each is one cell of a payload, and sizes are counted in cells.  Who     *)
(* else writes, conflicts and failures of the disk are in FileServer.      *)
(***************************************************************************)
EXTENDS Integers, SequencesExt

CONSTANTS
  Contents,    \* contents of files: sequences of bytes.  The chunker may cut
               \* before a 0, which stands for a byte whose low nibble is zero
  Paths,       \* paths, as sequences of bytes
  Base,        \* more than any byte
  PathMod,     \* 2^16: a path's length is sent in two bytes
  BlockSize,   \* the client's block, 64 KiB
  MaxPlain,    \* what a block may decompress to, MAX_CHUNK_PLAIN
  MaxPayload,  \* MAX_PAYLOAD_SIZE
  MinSize,     \* bounds of the server's chunks
  MaxSize

ASSUME BytesAssumption == \A s \in Contents \cup Paths : s \in Seq(0 .. Base - 1)
ASSUME SizesAssumption ==
  /\ {Base, BlockSize, MinSize, PathMod, MaxPlain, MaxPayload, MaxSize} \subseteq Nat \ {0}
  /\ MaxSize > MinSize /\ MaxPlain >= BlockSize

VARIABLES
  op,        \* "sparse": the way the MCP client writes; "plain": MSG_WRITE_BLOCKS
  file,      \* what the client writes: path, content, expected hash
  zstd,      \* PROXYGIT_SPARSE_ZSTD
  store,     \* the server's blocks: [hash, data]
  known,     \* the hashes that the client takes the server to have
  payload,   \* of the write request
  pc,        \* "ask", "send", "arrived", "stored", "refused", "read"
  got,       \* the file as the server indexes it: path, expected, chunks
  readback   \* what the client reads afterwards

wireVars == <<op, file, zstd, store, known, payload, pc, got, readback>>

None == -1
Error == <<-1>>
NoFile == [path |-> Error, expected |-> None, chunks |-> <<>>]

\* No two contents that are blocks have the same hash.
Hash(d) ==
  LET h[n \in 0 .. Len(d)] == IF n = 0 THEN 0 ELSE (Base + 1) * h[n - 1] + d[n] + 1
  IN h[Len(d)]
Block(d) == [hash |-> Hash(d), data |-> d]
HashOf(b) == b.hash
Held(h) == \E b \in store : b.hash = h
Fetch(h, blocks) == CHOOSE b \in blocks : b.hash = h

\* The client's blocks, all of one size but the last.
Split(d) ==
  [i \in 1 .. (Len(d) + BlockSize - 1) \div BlockSize |->
     Block(SubSeq(d, (i - 1) * BlockSize + 1, Min({i * BlockSize, Len(d)})))]

Map(f(_), s) == [i \in DOMAIN s |-> f(s[i])]
Sum(s) == FoldLeft(+, 0, s)

-------------------------------------------------------------------------------
(* Codecs                                                                  *)

\* zstd makes a run shorter, and what it cannot shorten it makes longer.  A block
\* that decompresses to more than MaxPlain is refused.
Compress(d) ==
  IF Len(d) > 3 /\ \A i \in DOMAIN d : d[i] = d[1] THEN <<0, d[1], Len(d)>> ELSE <<1>> \o d
\* Faulty: no headroom, and the bound itself excluded.
DecompressTight(c) ==
  LET d == IF c[1] = 1 THEN Tail(c) ELSE [i \in 1 .. c[3] |-> c[2]]
  IN IF Len(d) >= BlockSize THEN Error ELSE d

Decompress(c) ==
  LET d == IF c[1] = 1 THEN Tail(c) ELSE [i \in 1 .. c[3] |-> c[2]]
  IN IF Len(d) > MaxPlain THEN Error ELSE d

EncodePath(p) == <<Len(p) % PathMod>> \o p

\* [path_len][path][content]
EncodeWrite(p, d) == EncodePath(p) \o d
DecodeWrite(w) ==
  IF Len(w) < 1 + w[1] THEN NoFile
  ELSE [path |-> SubSeq(w, 2, 1 + w[1]), expected |-> None,
        chunks |-> <<SubSeq(w, 2 + w[1], Len(w))>>]

\* [path_len][path][flags], [expected hash] with flag 1, [count], and for each
\* block [hash][data_len][data].  A block without data stays without; the others
\* are compressed, with flag 2, when that makes them shorter all together.
Packed(d) == IF d = <<>> THEN d ELSE Compress(d)
EncodeSparse(p, blocks, e, z) ==
  LET plain == Map(LAMBDA b : b.data, blocks)
      packed == Map(Packed, plain)
      use == z /\ Sum(Map(Len, packed)) < Sum(Map(Len, plain))
      data == IF use THEN packed ELSE plain
  IN EncodePath(p)
       \o <<(IF e = None THEN 0 ELSE 1) + (IF use THEN 2 ELSE 0)>>
       \o (IF e = None THEN <<>> ELSE <<e>>)
       \o <<Len(blocks)>>
       \o FlattenSeq([i \in DOMAIN blocks |-> <<blocks[i].hash, Len(data[i])>> \o data[i]])

\* One block, from position at on; a block that cannot be read leaves at = 0.
DecodeBlock(w, z, so) ==
  LET at == so.at
      end == at + 1 + w[at + 1]
      raw == SubSeq(w, at + 2, end)
      data == IF z /\ raw /= <<>> THEN Decompress(raw) ELSE raw
  IN IF at = 0 \/ at + 1 > Len(w) THEN [so EXCEPT !.at = 0]
     ELSE IF end > Len(w) \/ data = Error THEN [so EXCEPT !.at = 0]
     ELSE [at |-> end + 1, blocks |-> Append(so.blocks, [hash |-> w[at], data |-> data])]

\* n blocks, the first of them at position at.
DecodeBlocks(w, z, at, n) ==
  LET upTo[k \in 0 .. n] == IF k = 0 THEN [at |-> at, blocks |-> <<>>]
                            ELSE DecodeBlock(w, z, upTo[k - 1])
  IN upTo[n]

DecodeSparse(w) ==
  LET flags == w[2 + w[1]]
      given == flags % 2 = 1
      count == IF given THEN 4 + w[1] ELSE 3 + w[1]
      all == DecodeBlocks(w, flags \div 2 % 2 = 1, count + 1, w[count])
  IN IF Len(w) < 3 + w[1] \/ Len(w) < count \/ all.at = 0 THEN NoFile
     ELSE [path |-> SubSeq(w, 2, 1 + w[1]),
           expected |-> IF given THEN w[3 + w[1]] ELSE None,
           chunks |-> all.blocks]

\* [count][hash ...]
EncodeHashes(hs) == <<Len(hs)>> \o hs
DecodeHashes(w) == IF Len(w) < 1 + w[1] THEN <<>> ELSE SubSeq(w, 2, 1 + w[1])

\* recv_frame refuses a payload that is too large; the sender does not look.
Received(w) == Len(w) <= MaxPayload

-------------------------------------------------------------------------------
(* The chunker                                                             *)

\* Faulty: the byte before the boundary is left to the next chunk.
ScanEarly(d, off, limit) ==
  LET hits == {i \in MinSize .. limit - 1 : d[off + i + 1] = 0}
  IN IF hits = {} THEN MinSize ELSE Min(hits) - 1

\* The offset of the first boundary of the window, and MinSize without one.
Scan(d, off, limit) ==
  LET hits == {i \in MinSize .. limit - 1 : d[off + i + 1] = 0}
  IN IF hits = {} THEN MinSize ELSE Min(hits)

\* A boundary at MinSize is taken for none.
ChunkLen(d, off) ==
  LET remaining == Len(d) - off
      limit == Min({remaining, MaxSize})
      cut == Scan(d, off, limit)
  IN IF remaining <= MinSize THEN remaining
     ELSE IF cut = MinSize THEN limit ELSE cut

ProcessBuffer(d) ==
  LET from[off \in 0 .. Len(d)] ==
        IF off = Len(d) THEN <<>>
        ELSE LET n == ChunkLen(d, off)
             IN <<SubSeq(d, off + 1, off + n)>> \o from[off + n]
  IN from[0]

-------------------------------------------------------------------------------
(* A write and the read after it                                           *)

WireInit ==
  /\ op \in {"sparse", "plain"}
  /\ file \in [path : Paths, content : Contents, expected : {None, 0}]
  /\ op = "plain" => file.expected = None
  /\ zstd \in BOOLEAN
  /\ store \in SUBSET ToSet(Split(file.content))
  /\ known = {}
  /\ payload = <<>>
  /\ pc = IF op = "sparse" THEN "ask" ELSE "send"
  /\ got = NoFile
  /\ readback = Error

\* handle_has_blocks names the hashes that it has, as often as it was asked.
HasBlocks ==
  LET query == EncodeHashes(Map(HashOf, Split(file.content)))
      held == FlattenSeq(Map(LAMBDA h : IF Held(h) THEN <<h>> ELSE <<>>, DecodeHashes(query)))
      answer == EncodeHashes(held)
  IN IF Received(query) /\ Received(answer) THEN ToSet(DecodeHashes(answer)) ELSE {}

\* After any failure the client sends all blocks.
Ask ==
  /\ pc = "ask"
  /\ known' \in {HasBlocks, {}}
  /\ pc' = "send"
  /\ UNCHANGED <<op, file, zstd, store, payload, got, readback>>

\* The data of the blocks that the server has is left out.
Sparse == Map(LAMBDA b : IF b.hash \in known THEN [b EXCEPT !.data = <<>>] ELSE b,
              Split(file.content))

Request ==
  IF op = "sparse" THEN EncodeSparse(file.path, Sparse, file.expected, zstd)
  ELSE EncodeWrite(file.path, file.content)

Send ==
  /\ pc = "send"
  /\ payload' = Request
  /\ pc' = "arrived"
  /\ UNCHANGED <<op, file, zstd, store, known, got, readback>>

\* The new blocks are stored, then those without data are looked up.
Brought(f) == {b \in ToSet(f.chunks) : b.data /= <<>>}
Resolved(f, blocks) ==
  [f EXCEPT !.chunks = Map(LAMBDA b : IF b.data /= <<>> THEN b.data
                                      ELSE Fetch(b.hash, blocks).data, f.chunks)]

WriteBlocksSparse ==
  /\ pc = "arrived" /\ op = "sparse" /\ Received(payload)
  /\ LET f == DecodeSparse(payload)
         blocks == store \cup {b \in Brought(f) : ~Held(b.hash)}
     IN /\ f /= NoFile
        /\ store' = blocks
        /\ IF \A b \in ToSet(f.chunks) : \E o \in blocks : o.hash = b.hash
           THEN got' = Resolved(f, blocks) /\ pc' = "stored"
           ELSE pc' = "refused" /\ UNCHANGED got
  /\ UNCHANGED <<op, file, zstd, known, payload, readback>>

WriteBlocks ==
  /\ pc = "arrived" /\ op = "plain" /\ Received(payload)
  /\ LET f == DecodeWrite(payload)
         chunks == ProcessBuffer(f.chunks[1])
     IN /\ f /= NoFile
        /\ got' = [f EXCEPT !.chunks = chunks]
        /\ store' = store \cup {Block(c) : c \in ToSet(chunks)}
  /\ pc' = "stored"
  /\ UNCHANGED <<op, file, zstd, known, payload, readback>>

Refuse ==
  /\ pc = "arrived"
  /\ \/ ~Received(payload)
     \/ op = "sparse" /\ DecodeSparse(payload) = NoFile
     \/ op = "plain" /\ DecodeWrite(payload) = NoFile
  /\ pc' = "refused"
  /\ UNCHANGED <<op, file, zstd, store, known, payload, got, readback>>

\* The server sends a file in one frame, whatever its size.
ReadFile ==
  /\ pc = "stored"
  /\ LET d == FlattenSeq(got.chunks)
     IN readback' = IF Received(d) THEN d ELSE Error
  /\ pc' = "read"
  /\ UNCHANGED <<op, file, zstd, store, known, payload, got>>

WireNext == Ask \/ Send \/ WriteBlocksSparse \/ WriteBlocks \/ Refuse \/ ReadFile
WireSpec == WireInit /\ [][WireNext]_wireVars

-------------------------------------------------------------------------------
(* Properties                                                              *)

Fits == Len(file.path) < PathMod

\* A write arrives as it was sent, or is refused, and only its size can be the
\* reason; what is read afterwards is what was written, unless the file is too
\* large for a frame.  Whatever the server had before, whatever the handshake
\* said, compressed or not (encode and decode functions of protocol.rs,
\* handle_write_blocks_sparse).  The path's length must fit its field.
Delivered ==
  Fits =>
    /\ pc = "stored" => /\ got.path = file.path /\ got.expected = file.expected
                        /\ FlattenSeq(got.chunks) = file.content
    /\ pc = "refused" => Len(payload) > MaxPayload
    /\ pc = "read" => readback = file.content \/ Len(file.content) > MaxPayload

\* Why the chunker cuts where it does: a chunk ends before a boundary, or has
\* the largest size, or ends the file; and it goes on over a boundary only when
\* there is one at the least size (CdcChunker::process_buffer).
CutsExplained ==
  op = "plain" /\ pc = "stored" =>
    \A i \in DOMAIN got.chunks :
      LET c == got.chunks[i]
          last == i = Len(got.chunks)
      IN /\ 0 < Len(c) /\ Len(c) <= MaxSize
         /\ ~last => \/ Len(c) = MaxSize
                     \/ Len(c) > MinSize /\ got.chunks[i + 1][1] = 0
         /\ (\E j \in MinSize + 1 .. Len(c) : c[j] = 0) => c[MinSize + 1] = 0

-------------------------------------------------------------------------------
(* The inductive invariant of ClientWrite_proofs: besides the two above, what *)
(* the server's blocks are, and what the client and the request go by.        *)

FileSent ==
  /\ op \in {"sparse", "plain"}
  /\ file.path \in Seq(0 .. Base - 1) /\ file.content \in Seq(0 .. Base - 1)
  /\ file.expected \in {None, 0} /\ (op = "plain" => file.expected = None)

StoreHashed ==
  pc \in {"ask", "send", "arrived"} =>
    \A b \in store : b.data \in Seq(0 .. Base - 1) /\ b = Block(b.data)

\* The handshake names no block that the server does not have.
KnownHeld == pc \in {"send", "arrived"} => \A h \in known : Held(h)

WireInv ==
  /\ FileSent
  /\ StoreHashed
  /\ KnownHeld
  /\ pc = "arrived" => payload = Request
  /\ Delivered
  /\ CutsExplained
===============================================================================
