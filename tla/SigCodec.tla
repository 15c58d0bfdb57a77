------------------------------ MODULE SigCodec ------------------------------
(***************************************************************************)
(* The recovery id in a signature: utils/crypto.go.  LaSign adds the chain *)
(* id to the id v with which the key is recovered and stores the sum in    *)
(* one byte or, for chain ids from 110 on, in two; EcRecover takes it out  *)
(* again.  r and s, the first 64 bytes, are not touched: a signature is    *)
(* the sequence of the bytes that follow them.                             *)
(***************************************************************************)
EXTENDS Integers, Sequences

\* byte(chainId) of StartHub.
ChainId == 0 .. 255
\* What crypto.Sign returns in its last byte.
RecoveryId == {0, 1}

\* The length of a signature that both ends of a connection expect.
SigLen(chainId) == IF chainId >= 110 THEN 66 ELSE 65

\* In one byte the sum wraps.
LaSign(v, chainId) ==
    LET encodedRecId == chainId * 2 + 35 + v
    IN  IF chainId < 110
        THEN <<encodedRecId % 256>>
        ELSE <<encodedRecId \div 256, encodedRecId % 256>>

RecoverEncodedRecId(sig) ==
    IF Len(sig) = 1 THEN sig[1] ELSE 256 * sig[1] + sig[2]

\* Division of Go rounds towards zero.
Quot(a, b) == IF a >= 0 THEN a \div b ELSE -((-a) \div b)

\* byte(recId); a chain id of zero divides by zero.
EcRecover(sig, chainId) ==
    Quot(Quot(RecoverEncodedRecId(sig) - 36, 2), chainId) % 256

=============================================================================
