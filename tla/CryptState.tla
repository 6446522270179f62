----------------------------- MODULE CryptState -----------------------------
(***************************************************************************)
(* The receiving half of one session's voice encryption                    *)
(* (pkg/mumble/crypto/cryptstate.go), with the sender that it follows: how *)
(* a datagram's nonce is recovered from the byte that is transmitted, and  *)
(* how packets that arrive twice, late or never are told apart.  The       *)
(* server holds one CryptState per session; HandleUDP also tries datagrams *)
(* of other sessions on it.                                                *)
(*                                                                         *)
(* A legacy nonce is sixteen bytes, the least significant first: a number, *)
(* of which a datagram carries the lowest digit.  A digit has IvSize       *)
(* values (256 in the code), a bitmap byte BitsPerByte bits (8), and the   *)
(* bitmap BitmapBytes bytes (8).  OCB2 and GCM are external: they accept a *)
(* datagram if it was sealed with this key and the nonce they are given.   *)
(* The four statistics counters are left out.                              *)
(***************************************************************************)
EXTENDS Integers, Sequences, FiniteSets

CONSTANTS
    IvSize,        \* values of a nonce byte
    LateWindow,    \* 30: how far behind a packet may be
    NonceSpace,    \* nonces before they repeat
    BitsPerByte, BitmapBytes,
    Starts,        \* first nonces (SetKey draws them at random)
    MaxSent        \* bound: packets sealed

ASSUME IvAssumption ==
    /\ IvSize \in Nat \ {0} /\ LateWindow \in 0..IvSize
    /\ NonceSpace \in Nat /\ IvSize <= NonceSpace /\ Starts \subseteq 0..(NonceSpace - 1)

VARIABLES
    mode,        \* CryptState.mode
    start,       \* the nonce SetKey gave both ends
    sealed,      \* the sender's packets so far: encNonce, or encCounter
    resync,      \* the packet whose nonce is in a CryptSetup under way, or -1
    decNonce,    \* CryptState.decNonce
    decHistory,  \* CryptState.decHistory
    decMax,      \* CryptState.decMax
    decBitmap,   \* CryptState.decBitmap
    opened,      \* ghost: packets Decrypt has returned
    again,       \* ghost: it has returned a packet more than once
    overtaken    \* ghost: packets nearly a lap ahead have overtaken a CryptSetup

cryptVars == <<mode, start, sealed, resync, decNonce, decHistory, decMax, decBitmap, opened, again,
               overtaken>>

CryptInit ==
    /\ mode \in {"lite", "legacy", "secure"}
    /\ start \in Starts
    /\ sealed = 0 /\ resync = -1
    /\ decNonce = start /\ decHistory = [i \in 0..(IvSize - 1) |-> 0]
    /\ decMax = 0 /\ decBitmap = [i \in 0..(BitmapBytes - 1) |-> 0]
    /\ opened = {} /\ again = FALSE /\ overtaken = FALSE

\* The nonce of the sender's n-th packet.
NonceOf(n) == (start + n) % NonceSpace

Encrypt ==
    /\ sealed < MaxSent
    /\ sealed' = sealed + 1
    /\ UNCHANGED <<mode, start, resync, decNonce, decHistory, decMax, decBitmap, opened, again,
                   overtaken>>

Return(n) ==
    /\ opened' = opened \cup {n}
    /\ again' = (again \/ n \in opened)

(***************************************************************************)
(* decryptLegacy.                                                          *)
(***************************************************************************)
Iv(nonce)     == nonce % IvSize
Second(nonce) == (nonce \div IvSize) % IvSize
Upper(nonce)  == nonce - Iv(nonce)

Diff(iv) ==
    LET d == iv - Iv(decNonce)
    IN  IF d < -(IvSize \div 2) THEN d + IvSize
        ELSE IF d > IvSize \div 2 THEN d - IvSize ELSE d

\* Ahead: carry into the next byte if the first one has wrapped.
Advanced(iv) ==
    (Upper(decNonce) + iv + IF iv < Iv(decNonce) THEN IvSize ELSE 0) % NonceSpace

\* Late: the other bytes are kept, across a wrap too.
Behind(iv) == Upper(decNonce) + iv

Guess(iv) == IF Diff(iv) >= 1 THEN Advanced(iv) ELSE Behind(iv)

\* Fault: the history is not looked at for a late packet.
UnseenIfAhead(iv) ==
    \/ Diff(iv) >= 1 /\ decHistory[iv] # Second(Guess(iv))
    \/ Diff(iv) < 0 /\ Diff(iv) > -LateWindow

Unseen(iv) ==
    /\ Diff(iv) >= 1 \/ (Diff(iv) < 0 /\ Diff(iv) > -LateWindow)
    /\ decHistory[iv] # Second(Guess(iv))

\* The datagram of the n-th packet, which the network may deliver again or
\* late: refused as a replay, refused by OCB2 for the wrong guess, or opened.
\* The nonce moves only when a packet ahead is opened.
DecryptLegacy(n) ==
    LET iv == Iv(NonceOf(n))
    IN  /\ mode = "legacy" /\ n \in 1..sealed
        /\ IF Unseen(iv) /\ Guess(iv) = NonceOf(n)
           THEN /\ decHistory' = [decHistory EXCEPT ![iv] = Second(Guess(iv))]
                /\ decNonce' = IF Diff(iv) >= 1 THEN Guess(iv) ELSE decNonce
                /\ Return(n)
           ELSE UNCHANGED <<decHistory, decNonce, opened, again>>
        /\ UNCHANGED <<mode, start, sealed, resync, decMax, decBitmap, overtaken>>

\* CryptSetup with a ClientNonce: the client's nonce when it asked.
AskResync ==
    /\ resync = -1 /\ mode = "legacy"
    /\ resync' = sealed
    /\ UNCHANGED <<mode, start, sealed, decNonce, decHistory, decMax, decBitmap, opened, again,
                   overtaken>>

\* It arrives whenever it does, however many packets were sealed meanwhile;
\* the history is kept.
SetDecNonce ==
    /\ resync # -1
    /\ decNonce' = NonceOf(resync) /\ resync' = -1
    /\ overtaken' = (overtaken \/ sealed - resync > IvSize - LateWindow)
    /\ UNCHANGED <<mode, start, sealed, decHistory, decMax, decBitmap, opened, again>>

(***************************************************************************)
(* decryptSecure.  The window is updated before the tag is verified, for   *)
(* the datagrams of other sessions too.                                    *)
(***************************************************************************)
Bits == BitsPerByte * BitmapBytes
BitSet(byte, bit) == (byte \div 2 ^ bit) % 2 = 1
WithBit(byte, bit) == IF BitSet(byte, bit) THEN byte ELSE byte + 2 ^ bit

\* Where the check looks for a counter that is not above decMax.
Position(counter) == Bits - 1 - (decMax - counter)
InWindow(counter) == decMax - counter < Bits
Seen(counter) ==
    LET idx == Position(counter) IN BitSet(decBitmap[idx \div BitsPerByte], idx % BitsPerByte)

\* A byte shifted left, and what comes in from its right neighbour; Go's
\* shifts by more than a byte's width give zero.
Shifted(shift) ==
    [i \in 0..(BitmapBytes - 1) |->
        IF shift > BitsPerByte THEN 0
        ELSE ((decBitmap[i] * 2 ^ shift) % 2 ^ BitsPerByte)
             + (IF i + 1 < BitmapBytes THEN decBitmap[i + 1] \div 2 ^ (BitsPerByte - shift) ELSE 0)]

Slide(counter) ==
    LET shift == counter - decMax
        bytes == IF shift > Bits THEN [i \in DOMAIN decBitmap |-> 0] ELSE Shifted(shift)
    IN  [bytes EXCEPT ![0] = WithBit(@, BitsPerByte - 1)]

\* A datagram with this counter; `own' says whether this session's key sealed it.
DecryptSecure(counter, own) ==
    /\ mode = "secure" /\ counter \in 1..MaxSent
    /\ own => counter <= sealed
    /\ \/ /\ counter <= decMax
          /\ InWindow(counter) /\ ~Seen(counter)
          /\ LET idx == Position(counter)
             IN  decBitmap' = [decBitmap EXCEPT ![idx \div BitsPerByte] =
                                   WithBit(@, idx % BitsPerByte)]
          /\ UNCHANGED decMax
       \/ /\ counter > decMax
          /\ decBitmap' = Slide(counter)
          /\ decMax' = counter
    /\ IF own THEN Return(counter) ELSE UNCHANGED <<opened, again>>
    /\ UNCHANGED <<mode, start, sealed, resync, decNonce, decHistory, overtaken>>

\* Lite mode copies.
DecryptLite(n) ==
    /\ mode = "lite" /\ n \in 1..sealed
    /\ Return(n)
    /\ UNCHANGED <<mode, start, sealed, resync, decNonce, decHistory, decMax, decBitmap, overtaken>>

CryptNext ==
    \/ Encrypt \/ AskResync \/ SetDecNonce
    \/ \E n \in 1..MaxSent : DecryptLegacy(n) \/ DecryptLite(n)
    \/ \E n \in 1..MaxSent, own \in BOOLEAN : DecryptSecure(n, own)

(***************************************************************************)
(* Properties.                                                             *)
(***************************************************************************)
\* In legacy mode no packet is returned twice, however the network repeats,
\* delays and loses datagrams, across wraps of the transmitted byte and after
\* nonce resyncs (decryptLegacy, SetDecNonce).  The history holds one byte per
\* first byte, so that it has forgotten a packet once another a lap later is
\* opened: it suffices as long as no resync takes the nonce back to such a
\* packet, which needs more than 256 - 30 packets, seconds of voice, to
\* overtake the CryptSetup.
LegacyOpensOnce == mode = "legacy" /\ ~overtaken => ~again

\* The same of secure mode, of which docs/protocol/encryption.md:161 says that
\* packets within the window are checked against the bitmap.
SecureOpensOnce == mode = "secure" => ~again
=============================================================================
