---------------------------- MODULE MCCryptStream ----------------------------
(* CryptStream with sectors of four cells, GPT sectors of two and chunks   *)
(* of two sectors: images of every length up to three chunks and a bit,    *)
(* aligned to a chunk, to a sector, or to neither.                         *)
EXTENDS CryptStream
=============================================================================
