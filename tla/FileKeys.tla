------------------------------ MODULE FileKeys ------------------------------
(***************************************************************************)
(* The keys of files (fileCrypto.ts).  Cryptography is symbolic: what is   *)
(* sealed with a key opens with that key and with no other, and what does  *)
(* not open is Failed.  A stored block is the sealed text itself, since it *)
(* is addressed by its content.  Every file has a key of its own, wrapped  *)
(* for the volume; a legacy file has none and is sealed with the volume's. *)
(***************************************************************************)

CONSTANTS
  NoKey,    \* the empty wrapped key of a legacy file
  Failed    \* a call that throws

Seal(key, content) == [key |-> key, holds |-> content]

Opens(key, sealed) == sealed # Failed /\ sealed.key = key

Unseal(sealed, key) == IF Opens(key, sealed) THEN sealed.holds ELSE Failed

\* deriveSymKey of the volume's private key, and the n-th generated key.
VolumeKey(volume) == <<"volume", volume>>
FileKey(n) == <<"file", n>>

WrapFileKeyForVolume(volume, fileKey) == Seal(VolumeKey(volume), fileKey)

UnwrapFileKeyForVolume(volume, wrapped) ==
  IF wrapped = NoKey THEN Failed ELSE Unseal(wrapped, VolumeKey(volume))

EncryptFileForVolume(volume, text, n) ==
  [blob    |-> Seal(FileKey(n), text),
   wrapped |-> WrapFileKeyForVolume(volume, FileKey(n))]

\* The key a file is read with.
KeyOfFile(volume, wrapped) ==
  IF wrapped = NoKey THEN VolumeKey(volume) ELSE UnwrapFileKeyForVolume(volume, wrapped)

DecryptFileForVolume(volume, blob, wrapped) == Unseal(blob, KeyOfFile(volume, wrapped))

-----------------------------------------------------------------------------
(* Capsules *)

\* Volume ids are hexadecimal and may be spelled in capitals.
VolumeIdFromPublicKey(volume) == [volume |-> volume, capitals |-> FALSE]

LowerCase(id) == [id EXCEPT !.capitals = FALSE]

\* The recipient's key and an ephemeral one make a secret that only the two
\* have; the seal holds for the id, as it is spelled, and for the block.
CapsuleKey(volume, id, blob) == <<"capsule", volume, id, blob>>

CreateRecipientKeyCapsule(fileKey, recipientId, blob) ==
  [r |-> recipientId, w |-> Seal(CapsuleKey(recipientId.volume, recipientId, blob), fileKey)]

UnwrapRecipientKeyCapsule(volume, recipientId, blob, capsule) ==
  Unseal(capsule.w, CapsuleKey(volume, recipientId, blob))

=============================================================================
