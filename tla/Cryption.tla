------------------------------ MODULE Cryption ------------------------------
(***************************************************************************)
(* What the callers of class Cryption may rely on, its results being terms:*)
(* a cipher is opened by the key it was made with and by no other, and a   *)
(* block that was not made by encryptMessage() with that key and IV is not *)
(* authentic.  Both programs compile the same text of the class.  Numbers  *)
(* and texts are values of any kind, a random text a fresh one; an empty   *)
(* QByteArray is EmptyText.                                                *)
(***************************************************************************)
EXTENDS Naturals, Sequences

EmptyText == 0

-----------------------------------------------------------------------------
\* AES in GCM mode, the IV being authenticated with the message.

encryptMessage(key, iv, message) ==
    [key |-> key, iv |-> iv, message |-> message]

\* Mutant of decryptMessage: the tag is not looked at.
decryptAny(key, iv, cipher) == [valid |-> TRUE, message |-> cipher.message]

\* An exception of the filter makes valid false and leaves nothing retrieved.
decryptMessage(key, iv, cipher) ==
    IF cipher.key = key /\ cipher.iv = iv
       THEN [valid |-> TRUE, message |-> cipher.message]
       ELSE [valid |-> FALSE, message |-> EmptyText]

-----------------------------------------------------------------------------
\* RSA key pairs in files.  pair names the pair: its public key, and the
\* private key that goes with it.

getHashFromPassword(password) == [sha256 |-> password]

\* The two files: sk encrypted under the password, pk as it is.
generateClientRSAPiar(pair, password) ==
    [sk |-> [lockedBy |-> getHashFromPassword(password), pair |-> pair],
     pk |-> pair]

\* Mutant of checkClientSK: any password opens the file.
checkSKOfAnyPassword(skFile, password, cipher) ==
    IF cipher.pk = skFile.pair THEN cipher.text ELSE EmptyText

\* CTR mode has no tag: a wrong password gives bytes that BERDecode() or the
\* decryption of the cipher does not accept, which is caught.
checkClientSK(skFile, password, cipher) ==
    IF /\ skFile.lockedBy = getHashFromPassword(password)
       /\ cipher.pk = skFile.pair
       THEN cipher.text
       ELSE EmptyText

\* A random text, and its cipher for who has the private key.
generateTextForChecking(pk, text) ==
    [text |-> text, cipher |-> [pk |-> pk, text |-> text]]
=============================================================================
