-------------------------------- MODULE Frame --------------------------------
(***************************************************************************)
(* A frame on the wire (network/connection.cpp, compress_data/): four bytes*)
(* of length, in network order, and the ciphertext of the compressed       *)
(* message.  libzstd is external and stands here for a magic number, the   *)
(* size of the content and the content.                                    *)
(***************************************************************************)
EXTENDS AesEncrypt, RpcProtocol

CONSTANTS
    MAX_BUFFER_SIZE,
    MAX_FRAME_SIZE

\* A buffer of 1 MiB, frames of up to 16 MiB.
ASSUME SizeAssumption ==
    MAX_BUFFER_SIZE \in Nat /\ MAX_FRAME_SIZE \in Nat /\ MAX_BUFFER_SIZE <= MAX_FRAME_SIZE

-----------------------------------------------------------------------------
(* ZstdCompress *)

ZSTD_MAGIC == 40

ZSTD_compress(src) == <<ZSTD_MAGIC>> \o Word(Len(src)) \o src

\* Failed: ZSTD_CONTENTSIZE_ERROR.
ZSTD_getFrameContentSize(src) ==
    IF Len(src) < 5 THEN Failed
    ELSE IF src[1] # ZSTD_MAGIC THEN Failed ELSE WordAt(src, 1)

ZSTD_decompress(src, size) ==
    IF Len(src) # 5 + size THEN Failed ELSE SubSeq(src, 6, Len(src))

CompressString(src) == IF src = <<>> THEN <<>> ELSE ZSTD_compress(src)

DecompressString(src) ==
    LET size == ZSTD_getFrameContentSize(src)
    IN  IF src = <<>> THEN <<>>
        ELSE IF size = Failed THEN Failed ELSE ZSTD_decompress(src, size)

-----------------------------------------------------------------------------
(* Connection *)

\* WriteFrame(): what it puts on the wire for a serialized message.
WriteFrame(data, session_key) ==
    LET encrypted == Encrypt(CompressString(data), session_key)
    IN  NetWord(Len(encrypted)) \o encrypted

\* Mutant: a frame that is just complete is taken for half a packet.
FrameLengthLate(read_buffer_) ==
    IF Len(read_buffer_) < 4 THEN 0
    ELSE IF Len(read_buffer_) <= 4 + NetWordAt(read_buffer_) THEN 0 ELSE 4 + NetWordAt(read_buffer_)

\* ExtractFrame(), first part: how many bytes it takes off the buffer.  0 is
\* kIncomplete, Failed is kError for a length over MAX_FRAME_SIZE.
FrameLength(read_buffer_) ==
    IF Len(read_buffer_) < 4 THEN 0
    ELSE LET cipher_len == NetWordAt(read_buffer_)
         IN  IF cipher_len > MAX_FRAME_SIZE THEN Failed
             ELSE IF Len(read_buffer_) < 4 + cipher_len THEN 0 ELSE 4 + cipher_len

\* ExtractFrame(), second part: the message in them, Failed for kError.
FrameContent(frame) ==
    LET decrypted == Decrypt(SubSeq(frame, 5, Len(frame)))
        decompressed == IF decrypted = Failed THEN Failed ELSE DecompressString(decrypted)
    IN  IF decompressed = Failed THEN Failed
        ELSE IF HeaderOK(decompressed) THEN decompressed ELSE Failed

\* Mutant: the limit is reached one byte early.
OverflowsEarly(read_buffer_, n) == Len(read_buffer_) + n >= MAX_BUFFER_SIZE

\* Read(): the bytes that are there would exceed MAX_BUFFER_SIZE.
Overflows(read_buffer_, n) == Len(read_buffer_) + n > MAX_BUFFER_SIZE

=============================================================================
