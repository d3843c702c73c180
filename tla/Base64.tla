-------------------------------- MODULE Base64 --------------------------------
(* Utils::Base64 (include/cryptoconnect/helpers/utils/base64.hpp) and the     *)
(* signature built from it: Utils::Crypto::hmacBase64 (cryptography.hpp) and  *)
(* Auth::getSignature (src/adapters/coinbasepro/auth.cpp).                    *)
(*                                                                            *)
(* A byte is 0..255.  A character of encoded text is its place in the         *)
(* encoding table, 0..63, or Pad ('='), or 64 for any other character, which  *)
(* is what the decoding table holds for it.                                   *)
EXTENDS Integers, Sequences, SequencesExt

CONSTANTS
  Bytes,          \* the bytes that data is made of
  DigestLength    \* bound: bytes of data (a digest has 32)

ASSUME Base64Assumption == Bytes \subseteq 0..255 /\ DigestLength \in Nat

VARIABLE data     \* the bytes to encode

Pad == 65

(* What becomes of a call that runs past its string: encode's bound           *)
(* in_len - 2 wraps for fewer than two bytes, and decode looks at the last    *)
(* two characters of an empty text.                                           *)
Overrun == <<"overrun">>

(* What becomes of a text decode throws on.                                   *)
Thrown == <<"thrown">>

(* encode: four characters for three bytes, the last group padded.            *)
Encode(input) ==
  LET n       == Len(input)
      Byte(i) == IF i < n THEN input[i + 1] ELSE 0
      Char(p) ==
        LET i == 3 * (p \div 4)
        IN  CASE p % 4 = 0 -> Byte(i) \div 4
              [] p % 4 = 1 -> (Byte(i) % 4) * 16 + Byte(i + 1) \div 16
              [] p % 4 = 2 -> IF i + 1 < n THEN (Byte(i + 1) % 16) * 4 + Byte(i + 2) \div 64
                              ELSE Pad
              [] p % 4 = 3 -> IF i + 2 < n THEN Byte(i + 2) % 64 ELSE Pad
  IN  IF n < 2 THEN Overrun
      ELSE [p \in 1..(4 * ((n + 2) \div 3)) |-> Char(p - 1)]

(* Mutant of Decode: the padding takes one byte only. *)
DecodeOnePad(input) ==
  LET n      == Len(input)
      Padded == IF input[n] = Pad THEN 1 ELSE 0
      Six(i) == IF input[i] = Pad THEN 0 ELSE input[i]
      Triple(g) == Six(4 * g + 1) * 262144 + Six(4 * g + 2) * 4096
                     + Six(4 * g + 3) * 64 + Six(4 * g + 4)
      Weight == <<65536, 256, 1>>
      Byte(j) == (Triple(j \div 3) \div Weight[(j % 3) + 1]) % 256
  IN  IF n % 4 # 0 THEN Thrown
      ELSE [j \in 1..(3 * (n \div 4) - Padded) |-> Byte(j - 1)]

(* decode: three bytes for four characters, less one for each of the last two *)
(* characters that is Pad; Pad counts 0 wherever it stands.                   *)
Decode(input) ==
  LET n      == Len(input)
      Padded(i) == IF input[i] = Pad THEN 1 ELSE 0
      Six(i) == IF input[i] = Pad THEN 0 ELSE input[i]
      Triple(g) == Six(4 * g + 1) * 262144 + Six(4 * g + 2) * 4096
                     + Six(4 * g + 3) * 64 + Six(4 * g + 4)
      Weight == <<65536, 256, 1>>
      Byte(j) == (Triple(j \div 3) \div Weight[(j % 3) + 1]) % 256
  IN  CASE n % 4 # 0 -> Thrown
        [] n = 0     -> Overrun
        [] OTHER     -> [j \in 1..(3 * (n \div 4) - Padded(n) - Padded(n - 1)) |-> Byte(j - 1)]

(* hmacBase64 makes a string of the digest as of a C string, which ends at    *)
(* the first zero byte (there is one behind the digest, in HMAC's buffer).    *)
CString(digest) ==
  LET zeros == {i \in DOMAIN digest : digest[i] = 0}
  IN  IF zeros = {} THEN digest
      ELSE SubSeq(digest, 1, (CHOOSE i \in zeros : \A j \in zeros : i <= j) - 1)

(* getSignature removes spaces and line ends, which encode never writes.      *)
Signature(digest) == Encode(CString(digest))

-------------------------------------------------------------------------------
DataInit == data = <<>>

NextByte ==
  /\ Len(data) < DigestLength
  /\ \E b \in Bytes : data' = Append(data, b)

(* decode gives back what encode was given, for every length from two bytes   *)
(* on and thus every padding: the secret key of config.yaml and the signature *)
(* the exchange decodes are the bytes that were encoded.  Of one byte and of  *)
(* none, encode runs out of its buffer (base64.hpp:57), and decode of an      *)
(* empty text before its start (:108).                                        *)
DecodeUndoesEncode ==
  Len(data) >= 2 => Decode(Encode(data)) = data
===============================================================================
