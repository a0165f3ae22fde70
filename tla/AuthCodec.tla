------------------------------ MODULE AuthCodec ------------------------------
(***************************************************************************)
(* encrypt_auth and decrypt_auth, the same on both sides                   *)
(* (server/src/presentation.cpp, client/shared_library.cpp): a block is    *)
(* combined by exclusive or with the key, from a place that a random       *)
(* number gives and going round; its last characters are an agreed string. *)
(* The bits of a byte do not meet, so that a character is one bit here.    *)
(***************************************************************************)
EXTENDS Integers, Sequences

CONSTANTS Period,      \* the length of the key, 4093
          kSecret,     \* the key, from 0
          c_auth,      \* the agreed string
          RandomNums   \* what rand() may return

Bit == {0, 1}

ASSUME CodecAssumption == /\ Period \in Nat \ {0}
                          /\ kSecret \in [0..(Period - 1) -> Bit]
                          /\ c_auth \in Seq(Bit)
                          /\ RandomNums \subseteq Nat

Xor(a, b) == (a + b) % 2

(* The loop of encrypt_auth, and of decrypt_auth before it compares. *)
Crypted(key, random_num, auth) ==
  [i \in 1..Len(auth) |-> Xor(auth[i], key[(random_num + i - 1) % Period])]

(* Variant for the checks: the last character is not compared. *)
StopsEarly(random_num, auth) ==
  LET plain == Crypted(kSecret, random_num, auth)
      start == Len(auth) - Len(c_auth)
  IN  \A i \in 1..(Len(auth) - 1) : i > start => plain[i] = c_auth[i - start]

(* decrypt_auth.  The place is i - 1 in the code, which compares those     *)
(* greater than length - 32: the first character of the string is not      *)
(* compared.                                                               *)
Decrypts(random_num, auth) ==
  LET plain == Crypted(kSecret, random_num, auth)
      start == Len(auth) - Len(c_auth)
  IN  \A i \in 1..Len(auth) : i - 1 > start => plain[i] = c_auth[i - start]

(* What is encrypted: the data of a device, a bit that none of the handlers *)
(* looks at, and behind it a string.                                       *)
Plain(string) == <<0>> \o string

=============================================================================
