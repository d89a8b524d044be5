-------------------------------- MODULE AesCbc --------------------------------
(***************************************************************************)
(* aes_crypt_cbc of aes.c on one buffer, as sensocol.c calls it: output is *)
(* input. A device encrypts; the receiver decrypts with the same key and   *)
(* the same iv, which both take from the header of the packet (access key  *)
(* and nonce, twice). One step is one call of a key schedule, or one round *)
(* of a while loop.                                                        *)
(***************************************************************************)
EXTENDS Aes

Standard == INSTANCE Fips197

CONSTANTS
  Plaintexts,  (* the messages: sequences of blocks                        *)
  Keys,        (* the keys: sequences of words                             *)
  Headers      (* access key and nonce, a word each                        *)

ASSUME CbcAssumption ==
  /\ Plaintexts \subseteq Seq(Block)
  /\ Keys \subseteq Seq(Word)
  /\ Headers \subseteq Word \X Word

(* The tables are those of the standard, evaluated for every byte: what is *)
(* left to compare are key schedules, rounds and chaining.                 *)
ASSUME StandardAssumption ==
  /\ \A x, y \in Byte : Standard!Plus(x, y) = Xor(x, y)
  /\ \A x \in Byte : Standard!Sbox[x] = FSb[x]
  /\ \A i, j \in 1..4, x \in Byte :
       FT[j][x][i] = Standard!Multiple[Standard!Coefficient[((j + 4 - i) % 4) + 1]][FSb[x]]
  /\ \A i \in 1..10 : Standard!Rcon[i] = RCON[i]

VARIABLES
  plain,   (* the message to encrypt                                       *)
  ragged,  (* its length is no multiple of 16                              *)
  header,  (* access key and nonce of the packet                           *)
  key,     (* `key', of 32 * Len(key) bits                                 *)
  enc,     (* the context of aes_setkey_enc                                *)
  dec,     (* the context of aes_setkey_dec                                *)
  iv,      (* `iv', which both loops change                                *)
  buffer,  (* input and output                                             *)
  pos,     (* the block both point to                                      *)
  pc       (* "setkey", "encrypt", "decrypt", "done", "refused"            *)

packet == <<plain, ragged, header, key>>
vars == <<packet, enc, dec, iv, buffer, pos, pc>>

NoContext == [nr |-> 0, rk |-> <<>>]

(* sensocol.c: buffer[3] to buffer[10], twice.                             *)
HeaderIv == <<header[1], header[2], header[1], header[2]>>

(* `switch( keysize )' *)
LegalKey(k) == Len(k) \in {4, 6, 8}

------------------------------------------------------------------------------
Init ==
  /\ plain \in Plaintexts
  /\ ragged \in BOOLEAN
  /\ header \in Headers
  /\ key \in Keys
  /\ enc = NoContext /\ dec = NoContext
  /\ iv = HeaderIv
  /\ buffer = plain
  /\ pos = 1
  /\ pc = "setkey"

SetKey ==
  /\ pc = "setkey" /\ LegalKey(key)
  /\ enc' = aes_setkey_enc(key)
  /\ pc' = "encrypt"
  /\ UNCHANGED <<packet, dec, iv, buffer, pos>>

InvalidKeyLength ==
  /\ pc = "setkey" /\ ~LegalKey(key)
  /\ pc' = "refused"
  /\ UNCHANGED <<packet, enc, dec, iv, buffer, pos>>

(* `length % 16': returns an error, which sensocol.c does not look at. *)
InvalidLength ==
  /\ pc = "encrypt" /\ ragged
  /\ pc' = "refused"
  /\ UNCHANGED <<packet, enc, dec, iv, buffer, pos>>

(* The slip leaves the iv as it was. *)
EncryptBlockUnchained ==
  /\ pc = "encrypt" /\ ~ragged /\ pos <= Len(buffer)
  /\ buffer' = [buffer EXCEPT ![pos] = aes_crypt_ecb(enc, ENCRYPT, XorBlock(buffer[pos], iv))]
  /\ pos' = pos + 1
  /\ UNCHANGED <<packet, enc, dec, iv, pc>>

EncryptBlock ==
  /\ pc = "encrypt" /\ ~ragged /\ pos <= Len(buffer)
  /\ LET output == aes_crypt_ecb(enc, ENCRYPT, XorBlock(buffer[pos], iv)) IN
       /\ buffer' = [buffer EXCEPT ![pos] = output]
       /\ iv' = output
  /\ pos' = pos + 1
  /\ UNCHANGED <<packet, enc, dec, pc>>

(* The packet is received; the receiver calls with mode AES_DECRYPT. The   *)
(* slip starts one block too early.                                        *)
ReceiveBefore ==
  /\ pc = "encrypt" /\ ~ragged /\ pos > Len(buffer)
  /\ iv' = HeaderIv /\ dec' = aes_setkey_dec(key)
  /\ pos' = 0 /\ pc' = "decrypt"
  /\ UNCHANGED <<packet, enc, buffer>>

Receive ==
  /\ pc = "encrypt" /\ ~ragged /\ pos > Len(buffer)
  /\ iv' = HeaderIv /\ dec' = aes_setkey_dec(key)
  /\ pos' = 1 /\ pc' = "decrypt"
  /\ UNCHANGED <<packet, enc, buffer>>

(* temp keeps the input, which the output overwrites, for the next iv; the *)
(* slip copies it too late.                                                *)
DecryptBlockLate ==
  /\ pc = "decrypt" /\ pos <= Len(buffer)
  /\ LET output == XorBlock(aes_crypt_ecb(dec, DECRYPT, buffer[pos]), iv) IN
       /\ buffer' = [buffer EXCEPT ![pos] = output]
       /\ iv' = output
  /\ pos' = pos + 1
  /\ UNCHANGED <<packet, enc, dec, pc>>

DecryptBlock ==
  /\ pc = "decrypt" /\ pos <= Len(buffer)
  /\ LET temp == buffer[pos] IN
       /\ buffer' = [buffer EXCEPT ![pos] = XorBlock(aes_crypt_ecb(dec, DECRYPT, temp), iv)]
       /\ iv' = temp
  /\ pos' = pos + 1
  /\ UNCHANGED <<packet, enc, dec, pc>>

DecryptEnds ==
  /\ pc = "decrypt" /\ pos > Len(buffer)
  /\ pc' = "done"
  /\ UNCHANGED <<packet, enc, dec, iv, buffer, pos>>

Next ==
  \/ SetKey \/ InvalidKeyLength
  \/ InvalidLength \/ EncryptBlock
  \/ Receive \/ DecryptBlock \/ DecryptEnds

Spec == Init /\ [][Next]_vars

------------------------------------------------------------------------------
(* What must hold.                                                         *)

(* Neither loop runs past the message, and both keep its length. *)
TypeOK ==
  /\ plain \in Plaintexts /\ ragged \in BOOLEAN /\ header \in Headers /\ key \in Keys
  /\ iv \in Block
  /\ buffer \in Seq(Block) /\ Len(buffer) = Len(plain)
  /\ pos \in 1..(Len(buffer) + 1)
  /\ pc \in {"setkey", "encrypt", "decrypt", "done", "refused"}

(* The definition of CBC (NIST SP 800-38A), block by block: each block is  *)
(* mixed with the ciphertext before it, the first with the iv of the       *)
(* header. Equal readings therefore do not show as equal blocks.           *)
Before(k) == IF k = 1 THEN HeaderIv ELSE buffer[k - 1]
Chained ==
  pc = "encrypt" =>
    \A k \in 1..(pos - 1) :
      buffer[k] = aes_crypt_ecb(enc, ENCRYPT, XorBlock(plain[k], Before(k)))

(* The block just encrypted is the one FIPS 197 and SP 800-38A ask for:    *)
(* the generated tables, the key schedules and the rounds compute AES, so  *)
(* that a server with another implementation reads what a device sends.    *)
BlocksAreStandard ==
  pc = "encrypt" /\ pos > 1 =>
    buffer[pos - 1] =
      Standard!Cipher(key, XorBlock(plain[pos - 1], Before(pos - 1)))

(* What the receiver decrypts, in place and with the iv the header gives,  *)
(* is what the device encrypted in place, for any key.                     *)
RoundTrip == pc = "done" => buffer = plain
==============================================================================
