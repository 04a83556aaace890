--------------------------- MODULE PqcSessionProofs ---------------------------
(***************************************************************************)
(* What devices and gateway together promise, for every set of devices,    *)
(* every provisioning, and any number of resets, cuts, exits and kills:    *)
(* agreement, order, completeness, and the refinement of RecordChannel.    *)
(*                                                                         *)
(* The argument names everything the two programs ever compute for a       *)
(* connection c in suite s (HelloOf, ServerHelloOf, FinishedOf, RecordOf)  *)
(* and says of every buffer, local variable and frame which of these it    *)
(* is.  AgreeInv has four parts for each connection:                       *)
(*   - DeviceSide: what its device holds, and has agreed and sent;         *)
(*   - Queues: the frames under way are the ones that follow those the     *)
(*     gateway has taken (FrameAt), never more than the device has written *)
(*     and, while the path is whole, all of them;                          *)
(*   - GatewaySide: what the gateway holds while it handles the            *)
(*     connection, and what it has accepted and delivered;                 *)
(*   - Outcome: what each verdict says is true.                            *)
(* The queue's count is what makes "closed" complete: the end of a stream  *)
(* that is seen over a whole path, with nothing left in it, comes after    *)
(* everything the device wrote.                                            *)
(*                                                                         *)
(* Where the two programs compute the same value differently, a lemma says *)
(* so once: SecretsMeet, ServerMacVerifies and KeysMeet.                   *)
(***************************************************************************)
EXTENDS PqcEndsProofs

(***************************************************************************)
(* What the two programs compute for connection c in suite s.              *)
(***************************************************************************)
HelloPart(c, s) ==
  <<s, owner(c), KeyId[Pinned[owner(c)]], Fresh("client-nonce", c),
    Ciphertext(Pinned[owner(c)], Fresh("static-coins", c))>>
HelloOf(c, s) ==
  Hello(HelloPart(c, s), Hmac(DevicePsk[owner(c)], <<LABEL_HELLO, HelloPart(c, s)>>))
SecretOf(c) == Secret(Pinned[owner(c)], Fresh("static-coins", c))

EkOf(c, s) == IF IsFs(s) THEN EphKey(c) ELSE NoTerm
GatewaySecretOf(c, s) == Decaps(ServerKey, HelloOf(c, s).kem_ct)
Th2Of(c, s) == transcript_2(HelloOf(c, s), Fresh("server-nonce", c),
                            Fresh("session-id", c), EkOf(c, s))
ServerMacOf(c, s) ==
  Hmac(derive_stage1(GatewaySecretOf(c, s), DevicePsk[owner(c)],
                     Fresh("client-nonce", c), Fresh("server-nonce", c),
                     Th2Of(c, s)),
       <<Th2Of(c, s)>>)
ServerHelloOf(c, s) ==
  [server_nonce |-> Fresh("server-nonce", c), session_id |-> Fresh("session-id", c),
   ek_eph |-> EkOf(c, s), server_mac |-> ServerMacOf(c, s)]

CtOf(c, s) ==
  IF IsFs(s) THEN Ciphertext(EphKey(c), Fresh("eph-coins", c)) ELSE NoTerm
KeysOf(c, s) == ClientKeys(owner(c), HelloOf(c, s), SecretOf(c),
                           Fresh("eph-coins", c), ServerHelloOf(c, s))
TranscriptOf(c, s) == ClientTranscript(HelloOf(c, s), CtOf(c, s), ServerHelloOf(c, s))
FinishedOf(c, s) ==
  [ct_eph |-> CtOf(c, s),
   client_mac |-> Hmac(KeysOf(c, s).cli_confirm,
                       <<TranscriptOf(c, s), ServerMacOf(c, s)>>)]
AgreedOf(c, s) ==
  [suite |-> s, session_id |-> Fresh("session-id", c), c2s |-> KeysOf(c, s).c2s]
RecordOf(c, s, r) ==
  [seq |-> r, box |-> Seal(KeysOf(c, s).c2s, r, <<Fresh("session-id", c), r>>, r)]

\* The i-th frame a device writes on connection c, if it gets that far.
FrameAt(c, s, i) ==
  CASE i = 1 -> Frame("ClientHello", HelloOf(c, s))
    [] i = 2 -> Frame("ClientFinished", FinishedOf(c, s))
    [] i \in 3 .. RecordCount + 2 -> Frame("Data", RecordOf(c, s, i - 3))
    [] OTHER -> Frame("Close", NoTerm)

(***************************************************************************)
(* Where the two ends of connection c are.                                 *)
(***************************************************************************)
\* Its device is in the pqc_session_run that opened it.
Active(c) == Busy(owner(c)) /\ opened[owner(c)] = c[2]

\* How many frames the gateway has taken off it.
Taken(c) ==
  IF conn # c THEN 0
  ELSE CASE spc = "hello" -> 0
         [] spc \in {"auth", "decaps", "answer", "finished"} -> 1
         [] OTHER -> 2 + Len(delivered[c])

\* How many frames the device has certainly written to it, and how many it may.
Least(c) ==
  IF established[c] # NotAgreed THEN 2 + Len(sent[c])
  ELSE IF Active(c) /\ cpc[owner(c)] # "hello" THEN 1 ELSE 0
Most(c) ==
  IF established[c] # NotAgreed
  THEN 2 + Len(sent[c]) + (IF ~Active(c) /\ Len(sent[c]) = RecordCount THEN 1 ELSE 0)
  ELSE IF Active(c) /\ cpc[owner(c)] = "hello" THEN 0 ELSE 1

Vetted(c) == /\ KeyId[Pinned[owner(c)]] = ServerKeyId
             /\ looked[c] = DevicePsk[owner(c)]

DeviceSide(c, s) ==
  LET d == owner(c) IN
  /\ link[c].cli = "open" <=> Active(c)
  /\ Active(c) =>
       /\ cpc[d] = "hello" => c \notin decapsulated
       /\ cpc[d] \in {"await", "verify", "finish"} =>
            s_hello[d] = HelloOf(c, s) /\ ss[d] = SecretOf(c)
       /\ cpc[d] \in {"verify", "finish"} =>
            s_frame[d] = ServerHelloOf(c, s) /\ c \in decapsulated
       /\ cpc[d] = "finish" => Pinned[d] = ServerKey
       /\ cpc[d] = "data" => Len(sent[c]) = n[d]
  /\ established[c] # NotAgreed =>
       /\ established[c] = AgreedOf(c, s)
       /\ Pinned[d] = ServerKey
       /\ c \in decapsulated
  /\ established[c] = NotAgreed => sent[c] = <<>>
  /\ Len(sent[c]) <= RecordCount
  /\ \A i \in 1 .. Len(sent[c]) : sent[c][i] = i - 1

Queues(c, s) ==
  /\ link[c].srv \in {"none", "closed"} => link[c].up = <<>>
  /\ \A i \in 1 .. Len(link[c].up) : link[c].up[i] = FrameAt(c, s, Taken(c) + i)
  /\ Taken(c) + Len(link[c].up) <= Most(c)
  /\ ReachesServer(c) => Least(c) <= Taken(c) + Len(link[c].up)
  /\ \A i \in 1 .. Len(link[c].down) :
       link[c].down[i] = Frame("ServerHello", ServerHelloOf(c, s))
  /\ link[c].down # <<>> => c \in decapsulated

Untried(c) == /\ verdict[c] = "none"
              /\ c \notin decapsulated
              /\ accepted[c] = NotAccepted
              /\ delivered[c] = <<>>

HsDrawn(c, s) ==
  [ss_static |-> GatewaySecretOf(c, s), server_nonce |-> Fresh("server-nonce", c),
   session_id |-> Fresh("session-id", c), th2 |-> NoTerm, server_mac |-> NoTerm]
HsSent(c, s) == [HsDrawn(c, s) EXCEPT !.th2 = Th2Of(c, s),
                                      !.server_mac = ServerMacOf(c, s)]

Handling(c, s) ==
  /\ verdict[c] = "none"
  /\ spc \in {"hello", "auth"} => Untried(c)
  /\ spc # "hello" => hello = HelloOf(c, s)
  /\ spc \in {"decaps", "answer", "finished"} => psk = DevicePsk[owner(c)]
  /\ spc = "decaps" => Vetted(c)
  /\ spc # "data" => accepted[c] = NotAccepted /\ delivered[c] = <<>>
  /\ spc \in {"answer", "finished", "confirm", "data"} => c \in decapsulated
  /\ spc = "answer" => hs = HsDrawn(c, s)
  /\ spc \in {"finished", "confirm", "data"} => hs = HsSent(c, s)
  /\ spc = "confirm" =>
       /\ established[c] # NotAgreed
       /\ keys = [cli_confirm |-> KeysOf(c, s).cli_confirm,
                  c2s |-> KeysOf(c, s).c2s, transcript |-> TranscriptOf(c, s),
                  client_mac |-> FinishedOf(c, s).client_mac]
  /\ spc = "data" =>
       /\ accepted[c] # NotAccepted
       /\ inbound = [key |-> KeysOf(c, s).c2s, session_id |-> Fresh("session-id", c),
                     last |-> Len(delivered[c]) - 1]

GatewaySide(c, s) ==
  /\ link[c].srv = "open" <=> conn = c
  /\ link[c].srv \in {"none", "queued"} => Untried(c)
  /\ conn = c => Handling(c, s)
  /\ c \in decapsulated => Vetted(c)
  /\ accepted[c] # NotAccepted =>
       established[c] # NotAgreed /\ accepted[c] = established[c]
  /\ delivered[c] # <<>> => accepted[c] # NotAccepted
  /\ Len(delivered[c]) <= Len(sent[c])
  /\ \A i \in 1 .. Len(delivered[c]) : delivered[c][i] = i - 1

Outcome(c) ==
  /\ verdict[c] = "wrong-key" => KeyId[Pinned[owner(c)]] # ServerKeyId
  /\ verdict[c] = "unknown-device" => looked[c] = NoPsk
  /\ verdict[c] = "psk-mac" => looked[c] # DevicePsk[owner(c)]
  /\ verdict[c] \notin {"client-mac", "bad-frame", "bad-record"}
  /\ verdict[c] = "closed" => ~Active(c) /\ delivered[c] = sent[c]

ConnInv(c, s) == /\ DeviceSide(c, s)
                 /\ Queues(c, s)
                 /\ GatewaySide(c, s)
                 /\ Outcome(c)

\* A connection nobody has opened yet.
Unopened(c) == link[c].cli = "none" /\ link[c].srv = "none"

BacklogInv ==
  /\ \A i \in 1 .. Len(backlog) : link[backlog[i]].srv = "queued"
  /\ \A i, j \in 1 .. Len(backlog) : backlog[i] = backlog[j] => i = j

Domains == /\ DOMAIN ss = Device
           /\ DOMAIN s_frame = Device
           /\ DOMAIN looked = Conn
           /\ DOMAIN accepted = Conn

AgreeInv ==
  /\ Domains
  /\ \A c \in Conn : \E s \in Suite : ConnInv(c, s)
  /\ \A c \in Conn : c[2] > opened[owner(c)] => Unopened(c)
  /\ BacklogInv
  /\ EncapsulatesToTheServer
  /\ \A c \in refused : Pinned[owner(c)] # ServerKey

-----------------------------------------------------------------------------
(* Terms.                                                                  *)

LEMMA HelloFields ==
  ASSUME NEW c, NEW s
  PROVE  /\ HelloOf(c, s).suite = s
         /\ HelloOf(c, s).device = owner(c)
         /\ HelloOf(c, s).key_id = KeyId[Pinned[owner(c)]]
         /\ HelloOf(c, s).client_nonce = Fresh("client-nonce", c)
         /\ HelloOf(c, s).kem_ct = Ciphertext(Pinned[owner(c)], Fresh("static-coins", c))
         /\ SignedPart(HelloOf(c, s)) = HelloPart(c, s)
         /\ HelloOf(c, s).psk_mac = hello_mac(DevicePsk[owner(c)], HelloPart(c, s))
  BY DEF HelloOf, HelloPart, Hello, SignedPart, hello_mac

\* The PSK MAC of a genuine ClientHello verifies under one PSK.
LEMMA OnePskVerifies ==
  ASSUME NEW c, NEW s, NEW k, hello = HelloOf(c, s)
  PROVE  HelloVerifies(k) <=> k = DevicePsk[owner(c)]
<1> DEFINE part == HelloPart(c, s)
           mine == DevicePsk[owner(c)]
<1>1. HelloVerifies(k) <=> hello_mac(mine, part) = hello_mac(k, part)
  BY HelloFields DEF HelloVerifies
<1> HIDE DEF part, mine
<1>2. hello_mac(mine, part) = hello_mac(k, part) <=> k = mine
  BY DEF hello_mac, Hmac
<1> QED
  BY <1>1, <1>2 DEF mine

LEMMA NamesAreTerms ==
  ASSUME NEW c
  PROVE  EphKey(c) # NoTerm /\ \A e, k : Ciphertext(e, k) # NoTerm
<1>1. EphKey(c).f = "eph-key" /\ NoTerm.f = "none"
  BY DEF EphKey, Fresh, NoTerm
<1>2. ASSUME NEW e, NEW k
      PROVE  Ciphertext(e, k).f = "ct"
  BY DEF Ciphertext
<1> QED
  BY <1>1, <1>2

\* Both ends have the same secret exactly if the device pins the gateway's key.
LEMMA SecretsMeet ==
  ASSUME NEW c, NEW s
  PROVE  GatewaySecretOf(c, s) = SecretOf(c) <=> Pinned[owner(c)] = ServerKey
<1> DEFINE key == Pinned[owner(c)]
           coins == Fresh("static-coins", c)
<1>1. GatewaySecretOf(c, s) = Decaps(ServerKey, Ciphertext(key, coins))
  BY HelloFields DEF GatewaySecretOf
<1> HIDE DEF key, coins
<1>2. Ciphertext(key, coins).a[1] = key /\ Ciphertext(key, coins).a[2] = coins
  BY DEF Ciphertext
<1>3. CASE key = ServerKey
  BY <1>1, <1>2, <1>3 DEF Decaps, SecretOf, key, coins
<1>4. CASE key # ServerKey
  <2>1. GatewaySecretOf(c, s) = [f |-> "reject", a |-> <<ServerKey, Ciphertext(key, coins)>>]
    BY <1>1, <1>2, <1>4 DEF Decaps
  <2>2. GatewaySecretOf(c, s).f = "reject" /\ SecretOf(c).f = "ss"
    BY <2>1 DEF SecretOf, Secret
  <2> QED
    BY <1>4, <2>2 DEF key
<1> QED
  BY <1>3, <1>4 DEF key

\* HKDF and HMAC take different inputs to different outputs.
LEMMA Stage1Injective ==
  ASSUME NEW a, NEW b, NEW k, NEW cn, NEW sn, NEW th,
         Hmac(derive_stage1(a, k, cn, sn, th), <<th>>)
           = Hmac(derive_stage1(b, k, cn, sn, th), <<th>>)
  PROVE  a = b
<1>1. derive_stage1(a, k, cn, sn, th) = derive_stage1(b, k, cn, sn, th)
  <2> DEFINE x == derive_stage1(a, k, cn, sn, th)
             y == derive_stage1(b, k, cn, sn, th)
  <2>1. Hmac(x, <<th>>).a[1] = x /\ Hmac(y, <<th>>).a[1] = y
    BY DEF Hmac
  <2> QED
    BY <2>1
<1>2. HkdfExtract(<<cn, sn>>, <<a, k>>) = HkdfExtract(<<cn, sn>>, <<b, k>>)
  <2> DEFINE x == HkdfExtract(<<cn, sn>>, <<a, k>>)
             y == HkdfExtract(<<cn, sn>>, <<b, k>>)
  <2>1. /\ HkdfExpand(x, LABEL_SRV_CONFIRM, th).a[1] = x
        /\ HkdfExpand(y, LABEL_SRV_CONFIRM, th).a[1] = y
    BY DEF HkdfExpand
  <2>2. HkdfExpand(x, LABEL_SRV_CONFIRM, th) = HkdfExpand(y, LABEL_SRV_CONFIRM, th)
    BY <1>1 DEF derive_stage1
  <2> QED
    BY <2>1, <2>2
<1>3. /\ HkdfExtract(<<cn, sn>>, <<a, k>>).a[2][1] = a
      /\ HkdfExtract(<<cn, sn>>, <<b, k>>).a[2][1] = b
  BY DEF HkdfExtract
<1> QED
  BY <1>2, <1>3

\* The firmware computes the gateway's MAC in its own way, and from its own
\* secret: the two agree exactly if the device pins the gateway's key.
LEMMA ServerMacVerifies ==
  ASSUME NEW c, NEW s
  PROVE  ServerHelloOf(c, s).server_mac
           = ClientExpectedMac(owner(c), HelloOf(c, s), SecretOf(c), ServerHelloOf(c, s))
         <=> Pinned[owner(c)] = ServerKey
<1> DEFINE k == DevicePsk[owner(c)]
           cn == Fresh("client-nonce", c)
           sn == Fresh("server-nonce", c)
           th == Th2Of(c, s)
           mac(x) == Hmac(derive_stage1(x, k, cn, sn, th), <<th>>)
<1>1. ClientTh2(HelloOf(c, s), ServerHelloOf(c, s)) = th
  BY DEF ClientTh2, ServerHelloOf, Th2Of, transcript_2
<1>2. HelloOf(c, s).client_nonce = cn /\ ServerHelloOf(c, s).server_nonce = sn
  BY HelloFields DEF ServerHelloOf
<1>3. ClientExpectedMac(owner(c), HelloOf(c, s), SecretOf(c), ServerHelloOf(c, s))
        = mac(SecretOf(c))
  BY <1>1, <1>2 DEF ClientExpectedMac, ClientPrk1, derive_stage1
<1>4. ServerHelloOf(c, s).server_mac = mac(GatewaySecretOf(c, s))
  BY DEF ServerHelloOf, ServerMacOf
<1> HIDE DEF k, cn, sn, th
<1>5. mac(GatewaySecretOf(c, s)) = mac(SecretOf(c))
        <=> GatewaySecretOf(c, s) = SecretOf(c)
  BY Stage1Injective
<1> QED
  BY <1>3, <1>4, <1>5, SecretsMeet

\* What the gateway derives once it has ClientFinished is what the firmware has,
\* in both suites, if the device pins the gateway's key.
LEMMA KeysMeet ==
  ASSUME NEW c, NEW s \in Suite, Pinned[owner(c)] = ServerKey
  PROVE  LET h == HelloOf(c, s)
             fs == SuiteFs(h.suite)
             k == DevicePsk[owner(c)]
             sn == Fresh("server-nonce", c)
             ct == FinishedOf(c, s).ct_eph
             th == IF fs THEN transcript_3(Th2Of(c, s), ct) ELSE Th2Of(c, s)
             all == IF fs
                    THEN derive_stage2(GatewaySecretOf(c, s), Decaps(EphKey(c), ct),
                                       k, h.client_nonce, sn, th)
                    ELSE derive_keys(GatewaySecretOf(c, s), k, h.client_nonce, sn, th)
         IN  /\ th = TranscriptOf(c, s)
             /\ all.cli_confirm = KeysOf(c, s).cli_confirm
             /\ all.c2s = KeysOf(c, s).c2s
<1> DEFINE h == HelloOf(c, s)
           sh == ServerHelloOf(c, s)
           k == DevicePsk[owner(c)]
           sn == Fresh("server-nonce", c)
           ct == FinishedOf(c, s).ct_eph
           coins == Fresh("eph-coins", c)
<1>1. GatewaySecretOf(c, s) = SecretOf(c)
  BY SecretsMeet
<1>2. h.suite = s /\ SuiteFs(h.suite) = IsFs(h.suite)
  BY HelloFields DEF SuiteFs, IsFs
<1>3. /\ sh.server_nonce = sn /\ sh.ek_eph = EkOf(c, s)
      /\ ClientTh2(h, sh) = Th2Of(c, s) /\ ct = CtOf(c, s)
  BY DEF ServerHelloOf, ClientTh2, Th2Of, transcript_2, FinishedOf
<1> HIDE DEF h, sh, ct, k, sn, coins
<1>4. CASE IsFs(s)
  <2>1. sh.ek_eph = EphKey(c) /\ ct = Ciphertext(EphKey(c), coins)
    BY <1>3, <1>4 DEF EkOf, CtOf, coins
  <2>2. Decaps(EphKey(c), ct) = Secret(sh.ek_eph, coins)
    BY <2>1 DEF Decaps, Ciphertext
  <2>3. ClientTranscript(h, ct, sh) = transcript_3(Th2Of(c, s), ct)
    BY <1>2, <1>3, <1>4 DEF ClientTranscript, transcript_3
  <2>4. TranscriptOf(c, s) = ClientTranscript(h, ct, sh)
    BY <1>3 DEF TranscriptOf, h, sh
  <2>5. KeysOf(c, s) = ClientKeys(owner(c), h, SecretOf(c), coins, sh)
    BY DEF KeysOf, h, sh, coins
  <2>6. ClientKeys(owner(c), h, SecretOf(c), coins, sh)
          = derive_stage2(SecretOf(c), Secret(sh.ek_eph, coins), k, h.client_nonce,
                          sn, transcript_3(Th2Of(c, s), ct))
    BY <1>2, <1>3, <1>4, <2>1, <2>3 DEF ClientKeys, ClientPrk2, derive_stage2, k
  <2> QED
    BY <1>1, <1>2, <1>4, <2>2, <2>3, <2>4, <2>5, <2>6 DEF h, ct, k, sn
<1>5. CASE ~IsFs(s)
  <2>1. \A x : ClientTranscript(h, x, sh) = Th2Of(c, s)
    BY <1>2, <1>3, <1>5 DEF ClientTranscript
  <2>2. TranscriptOf(c, s) = Th2Of(c, s)
    BY <2>1 DEF TranscriptOf, h, sh
  <2>3. KeysOf(c, s) = ClientKeys(owner(c), h, SecretOf(c), coins, sh)
    BY DEF KeysOf, h, sh, coins
  <2> DEFINE all == derive_keys(SecretOf(c), k, h.client_nonce, sn, Th2Of(c, s))
  <2>4. /\ KeysOf(c, s).cli_confirm = all.cli_confirm
        /\ KeysOf(c, s).c2s = all.c2s
    BY <1>2, <1>3, <1>5, <2>1, <2>3 DEF ClientKeys, ClientPrk1, derive_keys, k
  <2> QED
    BY <1>1, <1>2, <1>5, <2>2, <2>4 DEF h, ct, k, sn
<1> QED
  BY <1>4, <1>5

-----------------------------------------------------------------------------
(* What a step leaves alone.                                               *)

\* Connection c's own device, where it is on c.
DeviceSame(c) ==
  LET d == owner(c) IN
  /\ Active(c)' <=> Active(c)
  /\ Active(c) => /\ cpc'[d] = cpc[d]
                  /\ s_hello'[d] = s_hello[d]
                  /\ ss'[d] = ss[d]
                  /\ s_frame'[d] = s_frame[d]
                  /\ n'[d] = n[d]
  /\ established'[c] = established[c]
  /\ sent'[c] = sent[c]

\* What the gateway has found out about c.
RecordSame(c) ==
  /\ c \in decapsulated' <=> c \in decapsulated
  /\ looked'[c] = looked[c]
  /\ accepted'[c] = accepted[c]
  /\ delivered'[c] = delivered[c]

GatewaySame(c) ==
  /\ conn' = c <=> conn = c
  /\ conn = c => /\ spc' = spc /\ hello' = hello /\ psk' = psk
                 /\ hs' = hs /\ keys' = keys /\ inbound' = inbound
  /\ verdict'[c] = verdict[c]
  /\ RecordSame(c)

PathSame(c) == c \in cut' <=> c \in cut

LinkSame(c) == link'[c] = link[c] /\ PathSame(c)

LEMMA TakenSame ==
  ASSUME NEW c, GatewaySame(c)
  PROVE  Taken(c)' = Taken(c)
  BY DEF GatewaySame, RecordSame, Taken

LEMMA MostSame ==
  ASSUME NEW c, DeviceSame(c)
  PROVE  Least(c)' = Least(c) /\ Most(c)' = Most(c)
  BY DEF DeviceSame, Least, Most

LEMMA SidesKept ==
  ASSUME NEW c, NEW s, DeviceSame(c), GatewaySame(c),
         link'[c].cli = link[c].cli, link'[c].srv = link[c].srv
  PROVE  /\ DeviceSide(c, s) => DeviceSide(c, s)'
         /\ GatewaySide(c, s) => GatewaySide(c, s)'
         /\ Outcome(c) => Outcome(c)'
<1>1. DeviceSide(c, s) => DeviceSide(c, s)'
  BY DEF DeviceSame, GatewaySame, RecordSame, DeviceSide
<1>2. Handling(c, s) /\ conn = c => Handling(c, s)'
  BY DEF DeviceSame, GatewaySame, RecordSame, Handling, Untried, Vetted
<1>3. GatewaySide(c, s) => GatewaySide(c, s)'
  BY <1>2 DEF DeviceSame, GatewaySame, RecordSame, GatewaySide, Untried, Vetted
<1>4. Outcome(c) => Outcome(c)'
  BY DEF DeviceSame, GatewaySame, RecordSame, Outcome
<1> QED
  BY <1>1, <1>3, <1>4

LEMMA Untouched ==
  ASSUME NEW c, NEW s, ConnInv(c, s), DeviceSame(c), GatewaySame(c), LinkSame(c)
  PROVE  ConnInv(c, s)'
<1>1. Queues(c, s)'
  BY TakenSame, MostSame
     DEF ConnInv, GatewaySame, RecordSame, LinkSame, PathSame, Queues, ReachesServer
<1> QED
  BY <1>1, SidesKept DEF ConnInv, LinkSame

-----------------------------------------------------------------------------
(* Queues.                                                                 *)

\* Only TCP itself acts on a queue: what its writer may have written grows.
LEMMA QueueShrinks ==
  ASSUME TypeInv, NEW c \in Conn, NEW s, Queues(c, s),
         Taken(c)' = Taken(c), Least(c)' <= Least(c), Most(c) <= Most(c)',
         Least(c) \in Nat, Most(c) \in Nat, Taken(c) \in Nat,
         Least(c)' \in Nat, Most(c)' \in Nat,
         c \in decapsulated => c \in decapsulated',
         PathSame(c), link'[c].srv = link[c].srv, link'[c].up = link[c].up,
         \/ link'[c].down \in {link[c].down, <<>>}
         \/ link[c].down # <<>> /\ link'[c].down = Tail(link[c].down)
  PROVE  Queues(c, s)'
<1> USE LinkFacts
<1>1. /\ link'[c].srv \in {"none", "closed"} => link'[c].up = <<>>
      /\ \A i \in 1 .. Len(link'[c].up) :
           link'[c].up[i] = FrameAt(c, s, Taken(c)' + i)
      /\ Taken(c)' + Len(link'[c].up) <= Most(c)'
  BY DEF Queues
<1>2. ReachesServer(c)' => Least(c)' <= Taken(c)' + Len(link'[c].up)
  BY DEF Queues, ReachesServer, PathSame
<1>3. /\ \A i \in 1 .. Len(link'[c].down) :
           link'[c].down[i] = Frame("ServerHello", ServerHelloOf(c, s))
      /\ link'[c].down # <<>> => c \in decapsulated'
  <2>1. CASE link'[c].down = link[c].down
    BY <2>1 DEF Queues
  <2>2. CASE link'[c].down = <<>>
    BY <2>2, EmptySeq
  <2>3. CASE link[c].down # <<>> /\ link'[c].down = Tail(link[c].down)
    <3>1. PICK S : link[c].down \in Seq(S)
      OBVIOUS
    <3>2. /\ Len(link'[c].down) = Len(link[c].down) - 1
          /\ \A i \in 1 .. Len(link'[c].down) : link'[c].down[i] = link[c].down[i + 1]
      BY <2>3, <3>1, HeadTailProperties
    <3> QED
      BY <2>3, <3>2 DEF Queues
  <2> QED
    BY <2>1, <2>2, <2>3
<1> QED
  BY <1>1, <1>2, <1>3 DEF Queues

\* The device's next frame: the queue takes it if the gateway is in reach.
LEMMA QueueGrows ==
  ASSUME TypeInv, NEW c \in Conn, NEW s, Queues(c, s),
         Taken(c)' = Taken(c), Least(c) = Most(c),
         Least(c)' <= Most(c) + 1, Most(c)' = Most(c) + 1,
         Most(c) \in Nat, Taken(c) \in Nat, Least(c)' \in Nat,
         c \in decapsulated => c \in decapsulated',
         PathSame(c), link'[c].srv = link[c].srv,
         link'[c].up = PutUp(c, FrameAt(c, s, Most(c) + 1)),
         link'[c].down \in {link[c].down, <<>>}
  PROVE  Queues(c, s)'
<1> DEFINE f == FrameAt(c, s, Most(c) + 1)
<1>1. PICK S : link[c].up \in Seq(S)
  BY LinkFacts
<1>2. Len(link[c].up) \in Nat
  BY LinkFacts
<1>3. CASE ReachesServer(c)
  <2>1. link'[c].up = Append(link[c].up, f)
    BY <1>3 DEF PutUp
  <2> HIDE DEF f
  <2>2. link[c].up \in Seq(S \cup {f})
    BY <1>1, SeqMonotonic
  <2>3. /\ Len(link'[c].up) = Len(link[c].up) + 1
        /\ \A i \in 1 .. Len(link[c].up) : link'[c].up[i] = link[c].up[i]
        /\ link'[c].up[Len(link[c].up) + 1] = f
    BY <1>2, <2>1, <2>2, AppendProperties
  <2>4. Taken(c) + Len(link[c].up) = Most(c)
    <3>1. Most(c) <= Taken(c) + Len(link[c].up)
      BY <1>3 DEF Queues
    <3>2. Taken(c) + Len(link[c].up) <= Most(c)
      BY DEF Queues
    <3> QED
      BY <1>2, <3>1, <3>2
  <2>5. ASSUME NEW i \in 1 .. Len(link'[c].up)
        PROVE  link'[c].up[i] = FrameAt(c, s, Taken(c)' + i)
    <3>1. CASE i = Len(link[c].up) + 1
      BY <1>2, <2>3, <2>4, <3>1 DEF f
    <3>2. CASE i # Len(link[c].up) + 1
      <4>1. i \in 1 .. Len(link[c].up)
        BY <1>2, <2>3, <3>2
      <4>2. link[c].up[i] = FrameAt(c, s, Taken(c) + i)
        BY <4>1 DEF Queues
      <4> QED
        BY <2>3, <4>1, <4>2
    <3> QED
      BY <3>1, <3>2
  <2>6. Taken(c)' + Len(link'[c].up) = Most(c)'
    BY <1>2, <2>3, <2>4
  <2>7. link'[c].srv \notin {"none", "closed"}
    BY <1>3 DEF ReachesServer
  <2>8. /\ \A i \in 1 .. Len(link'[c].down) :
             link'[c].down[i] = Frame("ServerHello", ServerHelloOf(c, s))
        /\ link'[c].down # <<>> => c \in decapsulated'
    BY EmptySeq DEF Queues
  <2> QED
    BY <2>5, <2>6, <2>7, <2>8 DEF Queues
<1>4. CASE ~ReachesServer(c)
  <2>1. link'[c].up = link[c].up /\ ~ReachesServer(c)'
    BY <1>4 DEF PutUp, ReachesServer, PathSame
  <2>2. Taken(c)' + Len(link'[c].up) <= Most(c)'
    BY <1>2, <2>1 DEF Queues
  <2>3. /\ \A i \in 1 .. Len(link'[c].down) :
             link'[c].down[i] = Frame("ServerHello", ServerHelloOf(c, s))
        /\ link'[c].down # <<>> => c \in decapsulated'
    BY EmptySeq DEF Queues
  <2> QED
    BY <2>1, <2>2, <2>3 DEF Queues
<1> QED
  BY <1>3, <1>4

\* The gateway takes a frame: it is the next one.
LEMMA QueueTaken ==
  ASSUME TypeInv, NEW c \in Conn, NEW s, Queues(c, s), link[c].up # <<>>,
         Taken(c)' = Taken(c) + 1, Least(c)' = Least(c), Most(c)' = Most(c),
         Least(c) \in Nat, Most(c) \in Nat, Taken(c) \in Nat,
         c \in decapsulated => c \in decapsulated',
         PathSame(c), link'[c].srv = link[c].srv, link'[c].down = link[c].down,
         link'[c].up = Tail(link[c].up)
  PROVE  Queues(c, s)'
<1>1. PICK S : link[c].up \in Seq(S)
  BY LinkFacts
<1>2. /\ Len(link[c].up) \in Nat
      /\ Len(link'[c].up) = Len(link[c].up) - 1
      /\ Len(link'[c].up) \in Nat
      /\ \A i \in 1 .. Len(link'[c].up) : link'[c].up[i] = link[c].up[i + 1]
  BY <1>1, LinkFacts, HeadTailProperties, EmptySeq
<1>3. ASSUME NEW i \in 1 .. Len(link'[c].up)
      PROVE  link'[c].up[i] = FrameAt(c, s, Taken(c)' + i)
  <2>1. link[c].up[i + 1] = FrameAt(c, s, Taken(c) + (i + 1))
    BY <1>2 DEF Queues
  <2>2. Taken(c) + (i + 1) = Taken(c)' + i
    OBVIOUS
  <2> QED
    BY <1>2, <2>1, <2>2
<1>4. Taken(c)' + Len(link'[c].up) = Taken(c) + Len(link[c].up)
  BY <1>2
<1>5. ReachesServer(c)' <=> ReachesServer(c)
  BY DEF ReachesServer, PathSame
<1>6. link'[c].srv \notin {"none", "closed"}
  BY DEF Queues
<1> QED
  BY <1>3, <1>4, <1>5, <1>6 DEF Queues

LEMMA HeadIsNext ==
  ASSUME TypeInv, NEW c \in Conn, NEW s, Queues(c, s), link[c].up # <<>>,
         Taken(c) \in Nat, Most(c) \in Nat
  PROVE  /\ Head(link[c].up) = FrameAt(c, s, Taken(c) + 1)
         /\ Taken(c) + 1 <= Most(c)
<1>1. PICK S : link[c].up \in Seq(S)
  BY LinkFacts
<1>2. Len(link[c].up) \in Nat \ {0} /\ Head(link[c].up) = link[c].up[1]
  BY <1>1, EmptySeq
<1> QED
  BY <1>2 DEF Queues

\* The gateway's end is closed: what it had not read is lost.
LEMMA QueueDropped ==
  ASSUME TypeInv, NEW c \in Conn, NEW s, Queues(c, s),
         Taken(c)' = 0, Most(c)' \in Nat,
         c \in decapsulated => c \in decapsulated',
         link'[c].srv = "closed", link'[c].down = link[c].down,
         link'[c].up = <<>>
  PROVE  Queues(c, s)'
<1>1. Len(link'[c].up) = 0 /\ ~ReachesServer(c)'
  BY EmptySeq DEF ReachesServer
<1> QED
  BY <1>1 DEF Queues

\* The counts are counts.
LEMMA Counts ==
  ASSUME TypeInv, NEW c \in Conn
  PROVE  Least(c) \in Nat /\ Most(c) \in Nat /\ Taken(c) \in Nat
<1>1. Len(sent[c]) \in Nat /\ Len(delivered[c]) \in Nat
  BY LinkFacts
<1>2. RecordCount \in Nat
  BY ClientAssumption
<1>3. Least(c) \in Nat /\ Most(c) \in Nat
  <2> DEFINE l == Len(sent[c])
  <2>1. l \in Nat
    BY <1>1
  <2> HIDE DEF l
  <2>2. Least(c) \in {2 + l, 0, 1} /\ Most(c) \in {2 + l, 2 + l + 1, 2 + l + 0, 0, 1}
    BY DEF Least, Most, l
  <2> QED
    BY <2>1, <2>2
<1>4. Taken(c) \in Nat
  BY <1>1 DEF Taken
<1> QED
  BY <1>3, <1>4

\* A device on its connection has written all it may have.
LEMMA NothingUnderWay ==
  ASSUME TypeInv, NEW c \in Conn, Active(c)
  PROVE  Least(c) = Most(c)
<1>1. Len(sent[c]) \in Nat
  BY LinkFacts
<1> QED
  BY <1>1 DEF Least, Most

-----------------------------------------------------------------------------
(* Steps of a device.                                                      *)

\* A step of device d happens to d and to the connection it is on.
OthersKept(d) ==
  /\ \A x \in Device : x # d => /\ cpc'[x] = cpc[x]
                                /\ s_hello'[x] = s_hello[x]
                                /\ ss'[x] = ss[x]
                                /\ s_frame'[x] = s_frame[x]
                                /\ n'[x] = n[x]
  /\ DOMAIN ss' = DOMAIN ss
  /\ DOMAIN s_frame' = DOMAIN s_frame

OnlyOn(d) ==
  /\ OthersKept(d)
  /\ \A c \in Conn : c # curr(d) => /\ established'[c] = established[c]
                                    /\ sent'[c] = sent[c]
                                    /\ link'[c] = link[c]
  /\ UNCHANGED <<opened, backlog, cut, srvVars>>

LEMMA ConnIsPair ==
  ASSUME NEW c \in Conn
  PROVE  owner(c) \in Device /\ c = <<owner(c), c[2]>> /\ c[2] \in Nat
  BY NetAssumption DEF Conn, owner

LEMMA CurrIsActive ==
  ASSUME TypeInv, NEW d \in Device, Busy(d)
  PROVE  curr(d) \in Conn /\ owner(curr(d)) = d /\ Active(curr(d))
  BY CurrIsConn DEF curr, owner, Active

LEMMA OnlyCurrIsActive ==
  ASSUME NEW c \in Conn, Active(c)
  PROVE  c = curr(owner(c))
  BY ConnIsPair DEF Active, curr

LEMMA ServerIdles ==
  ASSUME UNCHANGED srvVars, NEW c
  PROVE  GatewaySame(c)
  BY DEF srvVars, locals, serverHistory, GatewaySame, RecordSame

LEMMA OthersUntouched ==
  ASSUME NEW d \in Device, OnlyOn(d), NEW c \in Conn, c # curr(d)
  PROVE  DeviceSame(c) /\ GatewaySame(c) /\ LinkSame(c)
<1>1. GatewaySame(c)
  BY ServerIdles DEF OnlyOn, OthersKept
<1>2. LinkSame(c)
  BY DEF OnlyOn, OthersKept, LinkSame, PathSame
<1>3. owner(c) \in Device
  BY ConnIsPair
<1>4. Active(c)' <=> Active(c)
  <2>1. CASE owner(c) = d
    <3>1. c[2] # opened[d]
      BY <2>1, ConnIsPair DEF curr
    <3> QED
      BY <2>1, <3>1 DEF Active, OnlyOn, OthersKept
  <2>2. CASE owner(c) # d
    BY <1>3, <2>2 DEF Active, Busy, OnlyOn, OthersKept
  <2> QED
    BY <2>1, <2>2
<1>5. Active(c) => owner(c) # d
  BY OnlyCurrIsActive
<1>6. DeviceSame(c)
  BY <1>3, <1>4, <1>5 DEF DeviceSame, OnlyOn, OthersKept
<1> QED
  BY <1>1, <1>2, <1>6

\* What is left to show of a step of d.
LEMMA DeviceMoves ==
  ASSUME TypeInv, AgreeInv, NEW d \in Device, NEW c0, c0 = curr(d), OnlyOn(d),
         c0 \in Conn =>
           /\ \E s \in Suite : ConnInv(c0, s)'
           /\ link'[c0].srv = link[c0].srv,
         EncapsulatesToTheServer',
         \A c \in refused' : Pinned[owner(c)] # ServerKey
  PROVE  AgreeInv'
<1>1. \A c \in Conn : \E s \in Suite : ConnInv(c, s)'
  <2> SUFFICES ASSUME NEW c \in Conn
               PROVE  \E s \in Suite : ConnInv(c, s)'
    OBVIOUS
  <2>1. CASE c = c0
    BY <2>1
  <2>2. CASE c # c0
    <3>1. PICK s \in Suite : ConnInv(c, s)
      BY DEF AgreeInv
    <3>2. ConnInv(c, s)'
      BY <2>2, <3>1, OthersUntouched, Untouched
    <3> QED
      BY <3>2
  <2> QED
    BY <2>1, <2>2
<1>2. \A c \in Conn : link'[c].srv = link[c].srv
  BY DEF OnlyOn, OthersKept
<1>3. ASSUME NEW c \in Conn, c[2] > opened'[owner(c)]
      PROVE  Unopened(c)'
  <2>1. c # c0
    <3>1. SUFFICES ASSUME c = c0 PROVE FALSE
      OBVIOUS
    <3>2. owner(c) = d /\ c[2] = opened[d]
      BY <3>1 DEF curr, owner
    <3> QED
      BY <1>3, <3>2, ConnIsPair DEF OnlyOn, OthersKept
  <2>2. Unopened(c)
    BY <1>3 DEF AgreeInv, OnlyOn
  <2> QED
    BY <2>1, <2>2 DEF OnlyOn, OthersKept, Unopened
<1>4. BacklogInv'
  <2>1. backlog \in Seq(Conn)
    BY DEF TypeInv, EndsTypeOK, NetTypeOK
  <2>2. \A i \in 1 .. Len(backlog) : backlog[i] \in Conn
    BY <2>1
  <2> QED
    BY <1>2, <2>2 DEF AgreeInv, BacklogInv, OnlyOn
<1>5. Domains'
  BY DEF AgreeInv, Domains, OnlyOn, OthersKept, srvVars, serverHistory
<1> QED
  BY <1>1, <1>3, <1>4, <1>5 DEF AgreeInv

\* What a step of its device leaves of the gateway's side of a connection.
LEMMA ConnMoves ==
  ASSUME TypeInv, NEW c \in Conn, NEW s, ConnInv(c, s), Active(c),
         UNCHANGED srvVars, link'[c].srv = link[c].srv,
         DeviceSide(c, s)', Queues(c, s)',
         established[c] # NotAgreed => established'[c] = established[c],
         Len(sent'[c]) \in Nat, Len(sent[c]) <= Len(sent'[c])
  PROVE  ConnInv(c, s)'
<1> USE DEF srvVars, locals, serverHistory
<1>1. Handling(c, s) => Handling(c, s)'
  BY DEF Handling, Untried, Vetted
<1>2. Len(delivered[c]) \in Nat /\ Len(sent[c]) \in Nat
  BY LinkFacts
<1>3. GatewaySide(c, s)'
  <2>1. Len(delivered'[c]) <= Len(sent'[c])
    BY <1>2 DEF ConnInv, GatewaySide
  <2>2. accepted'[c] # NotAccepted =>
          established'[c] # NotAgreed /\ accepted'[c] = established'[c]
    BY DEF ConnInv, GatewaySide
  <2> QED
    BY <1>1, <2>1, <2>2 DEF ConnInv, GatewaySide, Untried, Vetted
<1>4. Outcome(c)'
  BY DEF ConnInv, Outcome
<1> QED
  BY <1>3, <1>4 DEF ConnInv

\* The connection of a device in a session, and what it says of it.
LEMMA OnConnection ==
  ASSUME TypeInv, NonceInv, AgreeInv, NEW d \in Device, Busy(d)
  PROVE  /\ curr(d) \in Conn
         /\ owner(curr(d)) = d
         /\ Active(curr(d))
         /\ \E s \in Suite : ConnInv(curr(d), s)
         /\ Least(curr(d)) = Most(curr(d))
         /\ Most(curr(d)) =
              IF cpc[d] = "hello" THEN 0
              ELSE IF cpc[d] # "data" THEN 1 ELSE 2 + Len(sent[curr(d)])
         /\ established[curr(d)] # NotAgreed <=> cpc[d] = "data"
         /\ Len(sent[curr(d)]) \in Nat
<1>1. curr(d) \in Conn /\ owner(curr(d)) = d /\ Active(curr(d))
  BY CurrIsActive
<1>2. \E s \in Suite : ConnInv(curr(d), s)
  BY <1>1 DEF AgreeInv
<1>3. Least(curr(d)) = Most(curr(d))
  BY <1>1, NothingUnderWay
<1>4. established[curr(d)] # NotAgreed <=> cpc[d] = "data"
  BY DEF NonceInv, SessionInv, Busy
<1>5. Len(sent[curr(d)]) \in Nat
  BY <1>1, LinkFacts
<1>6. Most(curr(d)) = IF cpc[d] = "hello" THEN 0
                      ELSE IF cpc[d] # "data" THEN 1 ELSE 2 + Len(sent[curr(d)])
  BY <1>1, <1>4, <1>5 DEF Most
<1> QED
  BY <1>1, <1>2, <1>3, <1>4, <1>5, <1>6

\* The device leaves its connection, in whatever way: what it wrote stays.
LEMMA LeavesConnection ==
  ASSUME TypeInv, NonceInv, AgreeInv, NEW d \in Device, Busy(d), ~Busy(d)',
         NEW c, c = curr(d), OnlyOn(d), established'[c] = established[c],
         sent'[c] = sent[c],
         link'[c].cli # "open", link'[c].down = <<>>,
         link'[c].srv = link[c].srv, link'[c].up = link[c].up,
         EncapsulatesToTheServer',
         \A x \in refused' : Pinned[owner(x)] # ServerKey
  PROVE  AgreeInv'
<1>1. /\ c \in Conn /\ owner(c) = d /\ Active(c)
      /\ Least(c) = Most(c)
      /\ Most(c) = IF cpc[d] = "hello" THEN 0
                   ELSE IF cpc[d] # "data" THEN 1 ELSE 2 + Len(sent[c])
      /\ established[c] # NotAgreed <=> cpc[d] = "data"
      /\ Len(sent[c]) \in Nat
  BY OnConnection
<1>2. PICK s \in Suite : ConnInv(c, s)
  BY OnConnection
<1>3. ~Active(c)'
  BY <1>1 DEF Active
<1>4. DeviceSide(c, s)'
  BY <1>1, <1>2, <1>3 DEF ConnInv, DeviceSide, OnlyOn, srvVars, serverHistory
<1>5. /\ Least(c)' = IF cpc[d] = "data" THEN 2 + Len(sent[c]) ELSE 0
      /\ Most(c)' \in IF cpc[d] = "data"
                      THEN {2 + Len(sent[c]), 2 + Len(sent[c]) + 1} ELSE {1}
  BY <1>1, <1>3 DEF Least, Most
<1>6. Queues(c, s)'
  <2>1. Taken(c)' = Taken(c)
    BY TakenSame, ServerIdles DEF OnlyOn
  <2>2. /\ Least(c) \in Nat /\ Most(c) \in Nat /\ Taken(c) \in Nat
        /\ Least(c)' \in Nat /\ Most(c)' \in Nat
        /\ Least(c)' <= Least(c) /\ Most(c) <= Most(c)'
    BY <1>1, <1>5, Counts
  <2>3. PathSame(c) /\ UNCHANGED decapsulated
    BY DEF OnlyOn, PathSame, srvVars, serverHistory
  <2> QED
    BY <1>1, <1>2, <2>1, <2>2, <2>3, QueueShrinks DEF ConnInv
<1>7. ConnInv(c, s)'
  BY <1>1, <1>2, <1>4, <1>6, ConnMoves DEF OnlyOn
<1> QED
  BY <1>1, <1>7, DeviceMoves

LEMMA ReturnIsLocal ==
  ASSUME TypeInv, NEW d \in Device, NEW ok, Return(d, ok)
  PROVE  /\ ~Busy(d)'
         /\ DOMAIN ss' = DOMAIN ss
         /\ \A x \in Device : x # d => /\ cpc'[x] = cpc[x] /\ n'[x] = n[x]
                                       /\ (DOMAIN ss = Device => ss'[x] = ss[x])
  BY DEF Return, DropLocals, TypeInv, EndsTypeOK, ClientTypeOK, Busy

\* pqc_session_run returns false.
LEMMA FailAgrees ==
  ASSUME TypeInv, NonceInv, AgreeInv, NEW d \in Device, Busy(d), Fail(d),
         UNCHANGED <<opened, s_hello, established, sent, backlog, cut, srvVars>>,
         s_frame' = s_frame \/ \E v : s_frame' = [s_frame EXCEPT ![d] = v],
         EncapsulatesToTheServer',
         \A c \in refused' : Pinned[owner(c)] # ServerKey
  PROVE  AgreeInv'
<1> DEFINE c == curr(d)
<1>1. c \in Conn
  BY OnConnection
<1>2. /\ link'[c].cli = "closed" /\ link'[c].down = <<>>
      /\ link'[c].srv = link[c].srv /\ link'[c].up = link[c].up
      /\ \A x \in Conn : x # c => link'[x] = link[x]
  BY <1>1, ClosedEnd DEF Fail
<1>3. OnlyOn(d) /\ ~Busy(d)'
  BY <1>2, ReturnIsLocal DEF Fail, OnlyOn, OthersKept, AgreeInv, Domains
<1> QED
  BY <1>2, <1>3, LeavesConnection

\* A device outside a session is on no connection.
LEMMA IdleAgrees ==
  ASSUME TypeInv, AgreeInv, NEW d \in Device, ~Busy(d), ~Busy(d)', OnlyOn(d),
         UNCHANGED <<link, established, sent, refused, encapsulated>>
  PROVE  AgreeInv'
<1>0. PICK c : c = curr(d)
  OBVIOUS
<1>1. ASSUME c \in Conn
      PROVE  \E s \in Suite : ConnInv(c, s)'
  <2>1. PICK s \in Suite : ConnInv(c, s)
    BY <1>1 DEF AgreeInv
  <2>2. owner(c) = d
    BY <1>0 DEF owner, curr
  <2>3. ~Active(c) /\ ~Active(c)'
    BY <2>2 DEF Active
  <2>4. DeviceSame(c)
    BY <2>3 DEF DeviceSame
  <2>5. GatewaySame(c) /\ LinkSame(c)
    BY ServerIdles DEF OnlyOn, LinkSame, PathSame
  <2> QED
    BY <2>1, <2>4, <2>5, Untouched
<1>2. EncapsulatesToTheServer'
  BY DEF AgreeInv, EncapsulatesToTheServer, OnlyOn, srvVars, serverHistory
<1>3. \A x \in refused' : Pinned[owner(x)] # ServerKey
  BY DEF AgreeInv
<1> QED
  BY <1>0, <1>1, <1>2, <1>3, DeviceMoves

LEMMA ConnectFailsAgrees ==
  ASSUME TypeInv, AgreeInv, NEW d \in Device, ConnectFails(d), UNCHANGED srvVars
  PROVE  AgreeInv'
<1>1. ~Busy(d) /\ ~Busy(d)'
  BY ReturnIsLocal DEF ConnectFails, Busy
<1>2. OnlyOn(d)
  BY ReturnIsLocal
     DEF ConnectFails, OnlyOn, OthersKept, AgreeInv, Domains, netVars, statics, clientHistory
<1> QED
  BY <1>1, <1>2, IdleAgrees DEF ConnectFails, netVars, clientHistory

LEMMA ResetAgrees ==
  ASSUME TypeInv, NonceInv, AgreeInv, NEW d \in Device, Reset(d), UNCHANGED srvVars
  PROVE  AgreeInv'
<1> DEFINE c == curr(d)
<1>1. /\ ~Busy(d)'
      /\ DOMAIN ss' = DOMAIN ss /\ DOMAIN s_frame' = DOMAIN s_frame
      /\ \A x \in Device : x # d => /\ cpc'[x] = cpc[x] /\ n'[x] = n[x]
                                    /\ ss'[x] = ss[x] /\ s_frame'[x] = s_frame[x]
                                    /\ s_hello'[x] = s_hello[x]
  BY DEF Reset, DropLocals, TypeInv, EndsTypeOK, ClientTypeOK, Busy, AgreeInv, Domains,
         NonceInv
<1>2. UNCHANGED <<opened, backlog, cut, srvVars, established, sent, refused,
                  encapsulated>>
  BY DEF Reset, clientHistory
<1>3. EncapsulatesToTheServer' /\ \A x \in refused' : Pinned[owner(x)] # ServerKey
  BY <1>2 DEF AgreeInv, EncapsulatesToTheServer, srvVars, serverHistory
<1>4. CASE Busy(d)
  <2>1. c \in Conn /\ owner(c) = d /\ Active(c)
    BY <1>4, OnConnection
  <2>2. opened[d] > 0 /\ link[c].cli = "open"
    <3>1. link[c].cli = "open"
      BY <1>4, <2>1, OnConnection DEF ConnInv, DeviceSide
    <3>2. opened[d] >= 1 /\ opened[d] \in Nat
      BY <1>4, RunsRemain DEF TypeInv, OneConnectionPerRun
    <3> QED
      BY <3>1, <3>2
  <2>3. link' = [link EXCEPT ![c].cli = "gone", ![c].down = <<>>]
    BY <2>2 DEF Reset
  <2>4. /\ link'[c].cli = "gone" /\ link'[c].down = <<>>
        /\ link'[c].srv = link[c].srv /\ link'[c].up = link[c].up
        /\ \A x \in Conn : x # c => link'[x] = link[x]
    BY <2>1, <2>3, ClosedEnd
  <2>5. OnlyOn(d)
    BY <1>1, <1>2, <2>4 DEF OnlyOn, OthersKept
  <2> QED
    BY <1>1, <1>2, <1>3, <1>4, <2>4, <2>5, LeavesConnection
<1>5. CASE ~Busy(d)
  <2>1. UNCHANGED link
    <3>1. SUFFICES ASSUME opened[d] > 0, link[c].cli = "open"
                   PROVE  FALSE
      BY DEF Reset
    <3>2. c \in Conn /\ owner(c) = d
      BY <3>1 DEF TypeInv, EndsTypeOK, ClientTypeOK, curr, Conn, owner
    <3>3. Active(c)
      BY <3>1, <3>2 DEF AgreeInv, ConnInv, DeviceSide
    <3> QED
      BY <1>5, <3>2, <3>3 DEF Active
  <2>2. OnlyOn(d)
    BY <1>1, <1>2, <2>1 DEF OnlyOn, OthersKept
  <2> QED
    BY <1>1, <1>2, <1>5, <2>1, <2>2, IdleAgrees
<1> QED
  BY <1>4, <1>5

\* A new connection has no history at either end.
LEMMA ConnectAgrees ==
  ASSUME TypeInv, NonceInv, AgreeInv, NEW d \in Device, Connect(d),
         UNCHANGED srvVars
  PROVE  AgreeInv'
<1>0. PICK c : c = <<d, opened[d] + 1>>
  OBVIOUS
<1>1. opened[d] \in Nat /\ DOMAIN opened = Device /\ DOMAIN cpc = Device
  BY RunsRemain DEF TypeInv, EndsTypeOK, ClientTypeOK
<1>2. /\ opened'[d] = opened[d] + 1 /\ cpc'[d] = "hello"
      /\ \A x \in Device : x # d => opened'[x] = opened[x] /\ cpc'[x] = cpc[x]
  BY <1>1 DEF Connect
<1>3. c \in Conn /\ owner(c) = d /\ c[2] = opened[d] + 1
  <2>1. opened'[d] \in 0 .. MaxConn
    BY ConnectTyped DEF ClientTypeOK
  <2> QED
    BY <1>0, <1>1, <1>2, <2>1 DEF Conn, owner
<1>4. Unopened(c)
  BY <1>1, <1>3 DEF AgreeInv
<1>5. /\ link'[c].cli = "open" /\ link'[c].srv = "queued"
      /\ link'[c].up = link[c].up /\ link'[c].down = link[c].down
      /\ \A x \in Conn : x # c => link'[x] = link[x]
  <2>1. link' = [link EXCEPT ![c].cli = "open", ![c].srv = "queued"]
    BY <1>0 DEF Connect
  <2> HIDE <1>0
  <2> QED
    BY <1>3, <2>1, LinkFacts
<1>6. UNCHANGED <<cut, results, s_hello, ss, s_frame, n, established, sent, refused,
                  encapsulated, decapsulated>>
  BY DEF Connect, runLocals, statics, clientHistory, srvVars, serverHistory
<1>7. PICK s \in Suite : ConnInv(c, s)
  BY <1>3 DEF AgreeInv
<1>8. Untried(c) /\ conn # c
  BY <1>4, <1>7 DEF ConnInv, GatewaySide, Unopened
<1>9. Active(c)' /\ ~Active(c) /\ established[c] = NotAgreed
  BY <1>1, <1>2, <1>3 DEF Active, Busy, NonceInv, KeysInv, owner
<1>10. ConnInv(c, s)'
  <2>1. DeviceSide(c, s)'
    BY <1>2, <1>3, <1>5, <1>6, <1>7, <1>8, <1>9 DEF ConnInv, DeviceSide, Untried
  <2>2. Queues(c, s)'
    <3>1. link'[c].up = <<>> /\ link'[c].down = <<>>
      BY <1>4, <1>5, <1>7, <1>8 DEF ConnInv, Queues, Unopened, Untried
    <3>2. Len(link'[c].up) = 0 /\ Len(link'[c].down) = 0
      BY <3>1, EmptySeq
    <3>3. conn' # c
      BY <1>8 DEF srvVars
    <3>4. Taken(c)' = 0 /\ Least(c)' = 0 /\ Most(c)' = 0
      BY <1>2, <1>3, <1>6, <1>9, <3>3 DEF Taken, Least, Most
    <3> QED
      BY <3>1, <3>2, <3>4 DEF Queues
  <2>3. GatewaySide(c, s)'
    BY <1>4, <1>5, <1>6, <1>7, <1>8
       DEF ConnInv, GatewaySide, Untried, Vetted, Unopened, srvVars, serverHistory
  <2>4. Outcome(c)'
    BY <1>7, <1>8 DEF Outcome, Untried, srvVars, serverHistory
  <2> QED
    BY <2>1, <2>2, <2>3, <2>4 DEF ConnInv
<1>11. ASSUME NEW x \in Conn, x # c
       PROVE  \E t \in Suite : ConnInv(x, t)'
  <2>1. PICK t \in Suite : ConnInv(x, t)
    BY DEF AgreeInv
  <2>2. Active(x)' <=> Active(x)
    <3>1. CASE owner(x) = d
      <4>1. x[2] # opened[d] + 1
        BY <1>0, <1>11, <3>1, ConnIsPair
      <4>2. ~Busy(d)
        BY DEF Connect, Busy
      <4> QED
        BY <1>2, <3>1, <4>1, <4>2 DEF Active
    <3>2. CASE owner(x) # d
      BY <1>2, <3>2, ConnIsPair DEF Active, Busy
    <3> QED
      BY <3>1, <3>2
  <2>3. Active(x) => owner(x) # d
    BY DEF Active, Busy, Connect
  <2>4. DeviceSame(x)
    BY <1>2, <1>6, <2>2, <2>3, ConnIsPair DEF DeviceSame
  <2>5. GatewaySame(x) /\ LinkSame(x)
    BY <1>5, <1>6, <1>11, ServerIdles DEF LinkSame, PathSame
  <2> QED
    BY <2>1, <2>4, <2>5, Untouched
<1>12. ASSUME NEW x \in Conn, x[2] > opened'[owner(x)]
       PROVE  Unopened(x)'
  <2>1. owner(x) \in Device /\ x[2] \in Nat
    BY ConnIsPair
  <2>2. x # c
    BY <1>1, <1>2, <1>3, <1>12
  <2>3. x[2] > opened[owner(x)]
    <3>1. opened[owner(x)] \in Nat
      BY <2>1 DEF TypeInv, EndsTypeOK, ClientTypeOK
    <3> QED
      BY <1>1, <1>2, <1>12, <2>1, <3>1
  <2> QED
    BY <1>5, <2>2, <2>3 DEF AgreeInv, Unopened
<1>13. BacklogInv'
  <2>1. backlog \in Seq(Conn) /\ backlog' = Append(backlog, c)
    BY <1>0 DEF TypeInv, EndsTypeOK, NetTypeOK, Connect
  <2>2. /\ Len(backlog) \in Nat /\ Len(backlog') = Len(backlog) + 1
        /\ \A i \in 1 .. Len(backlog) : backlog[i] \in Conn /\ backlog'[i] = backlog[i]
        /\ backlog'[Len(backlog) + 1] = c
    BY <1>3, <2>1, AppendProperties, LenProperties, ElementOfSeq
  <2>3. \A i \in 1 .. Len(backlog) : link[backlog[i]].srv = "queued" /\ backlog[i] # c
    BY <1>4 DEF AgreeInv, BacklogInv, Unopened
  <2>4. ASSUME NEW i \in 1 .. Len(backlog')
        PROVE  link'[backlog'[i]].srv = "queued"
    <3>1. CASE i = Len(backlog) + 1
      BY <1>5, <2>2, <3>1
    <3>2. CASE i # Len(backlog) + 1
      <4>1. i \in 1 .. Len(backlog)
        BY <2>2, <3>2
      <4> QED
        BY <1>5, <2>2, <2>3, <4>1
    <3> QED
      BY <3>1, <3>2
  <2>5. ASSUME NEW i \in 1 .. Len(backlog'), NEW j \in 1 .. Len(backlog'),
               backlog'[i] = backlog'[j]
        PROVE  i = j
    <3>1. CASE i \in 1 .. Len(backlog) /\ j \in 1 .. Len(backlog)
      BY <2>2, <2>5, <3>1 DEF AgreeInv, BacklogInv
    <3>2. CASE ~(i \in 1 .. Len(backlog) /\ j \in 1 .. Len(backlog))
      BY <2>2, <2>3, <2>5, <3>2
    <3> QED
      BY <3>1, <3>2
  <2> QED
    BY <2>4, <2>5 DEF BacklogInv
<1>14. EncapsulatesToTheServer' /\ \A x \in refused' : Pinned[owner(x)] # ServerKey
  BY <1>6 DEF AgreeInv, EncapsulatesToTheServer
<1>15. Domains'
  BY <1>6 DEF AgreeInv, Domains, srvVars, serverHistory
<1> QED
  BY <1>3, <1>7, <1>10, <1>11, <1>12, <1>13, <1>14, <1>15 DEF AgreeInv

\* Until its ClientHello a connection may still be in either suite.
LEMMA AnySuite ==
  ASSUME TypeInv, NonceInv, AgreeInv, NEW d \in Device, cpc[d] = "hello",
         NEW s
  PROVE  ConnInv(curr(d), s)
<1> DEFINE c == curr(d)
<1>0. Busy(d)
  BY DEF Busy
<1>1. /\ c \in Conn /\ owner(c) = d /\ Active(c) /\ Most(c) = 0 /\ Least(c) = 0
      /\ established[c] = NotAgreed
  BY <1>0, OnConnection
<1>2. PICK s0 \in Suite : ConnInv(c, s0)
  BY <1>0, OnConnection
<1> HIDE DEF c
<1>3. c \notin decapsulated
  BY <1>1, <1>2 DEF ConnInv, DeviceSide
<1>4. DeviceSide(c, s)
  BY <1>1, <1>2, <1>3 DEF ConnInv, DeviceSide
<1>5. Len(link[c].up) \in Nat /\ Taken(c) \in Nat
  BY <1>1, LinkFacts, Counts
<1>6. Taken(c) = 0 /\ Len(link[c].up) = 0
  BY <1>1, <1>2, <1>5 DEF ConnInv, Queues
<1>7. link[c].down = <<>>
  BY <1>2, <1>3 DEF ConnInv, Queues
<1>8. Queues(c, s)
  <2>1. Len(link[c].down) = 0
    BY <1>7, EmptySeq
  <2> QED
    BY <1>1, <1>2, <1>6, <1>7, <2>1 DEF ConnInv, Queues
<1>9. conn = c => spc = "hello"
  <2>1. Len(delivered[c]) \in Nat /\ (conn = c => spc \in ServerPc \ {"accept", "down"})
    <3>1. conn = c => conn # NoConn
      BY <1>1, ConnIsPair DEF NoConn
    <3> QED
      BY <1>1, <3>1, LinkFacts DEF TypeInv, EndsTypeOK, ServerTypeOK
  <2> QED
    BY <1>6, <2>1 DEF Taken, ServerPc
<1>10. GatewaySide(c, s)
  BY <1>2, <1>9 DEF ConnInv, GatewaySide, Handling
<1> QED
  BY <1>2, <1>4, <1>8, <1>10 DEF ConnInv, c

LEMMA Frames ==
  ASSUME NEW c, NEW s
  PROVE  /\ FrameAt(c, s, 1) = Frame("ClientHello", HelloOf(c, s))
         /\ FrameAt(c, s, 2) = Frame("ClientFinished", FinishedOf(c, s))
         /\ \A r \in Nat : FrameAt(c, s, 2 + r + 1) =
              IF r < RecordCount THEN Frame("Data", RecordOf(c, s, r))
                                 ELSE Frame("Close", NoTerm)
<1>1. RecordCount \in Nat
  BY ClientAssumption
<1>2. FrameAt(c, s, 1) = Frame("ClientHello", HelloOf(c, s))
  BY DEF FrameAt
<1>3. FrameAt(c, s, 2) = Frame("ClientFinished", FinishedOf(c, s))
  BY DEF FrameAt
<1>4. ASSUME NEW r \in Nat
      PROVE  FrameAt(c, s, 2 + r + 1) =
               IF r < RecordCount THEN Frame("Data", RecordOf(c, s, r))
                                  ELSE Frame("Close", NoTerm)
  <2> DEFINE i == 2 + r + 1
  <2>1. i \in Nat /\ i # 1 /\ i # 2 /\ i - 3 = r
        /\ (i \in 3 .. RecordCount + 2 <=> r < RecordCount)
    BY <1>1
  <2> HIDE DEF i
  <2>2. CASE r < RecordCount
    BY <2>1, <2>2 DEF FrameAt, i
  <2>3. CASE ~(r < RecordCount)
    BY <2>1, <2>3 DEF FrameAt, i
  <2> QED
    BY <2>2, <2>3
<1> QED
  BY <1>2, <1>3, <1>4

\* A device in its session writes the next frame and goes on.
LEMMA WritesAgree ==
  ASSUME TypeInv, NonceInv, AgreeInv, NEW d \in Device, Busy(d), Busy(d)',
         NEW c, c = curr(d), NEW s \in Suite, ConnInv(c, s),
         OnlyOn(d),
         link' = [link EXCEPT ![c].up = PutUp(c, FrameAt(c, s, Most(c) + 1))],
         established[c] # NotAgreed => established'[c] = established[c],
         Len(sent'[c]) \in Nat, Len(sent[c]) <= Len(sent'[c]),
         Least(c)' = Most(c) + 1, Most(c)' = Most(c) + 1,
         DeviceSide(c, s)',
         EncapsulatesToTheServer',
         \A x \in refused' : Pinned[owner(x)] # ServerKey
  PROVE  AgreeInv'
<1>1. c \in Conn /\ owner(c) = d /\ Active(c) /\ Least(c) = Most(c)
  BY OnConnection
<1>2. /\ link'[c].up = PutUp(c, FrameAt(c, s, Most(c) + 1))
      /\ link'[c].down = link[c].down
      /\ link'[c].srv = link[c].srv
  BY <1>1, WrittenUp
<1>3. Queues(c, s)'
  <2>1. Taken(c)' = Taken(c)
    BY TakenSame, ServerIdles DEF OnlyOn
  <2>2. Least(c) \in Nat /\ Most(c) \in Nat /\ Taken(c) \in Nat
    BY <1>1, Counts
  <2>3. Least(c)' <= Most(c) + 1 /\ Least(c)' \in Nat
    BY <2>2
  <2>4. PathSame(c) /\ UNCHANGED decapsulated
    BY DEF OnlyOn, PathSame, srvVars, serverHistory
  <2> QED
    BY <1>1, <1>2, <2>1, <2>2, <2>3, <2>4, QueueGrows DEF ConnInv
<1>4. ConnInv(c, s)'
  BY <1>1, <1>2, <1>3, ConnMoves DEF OnlyOn
<1> QED
  BY <1>1, <1>2, <1>4, DeviceMoves

LEMMA SuiteOfTyped ==
  ASSUME TypeInv, NEW d \in Device, cpc[d] # "done"
  PROVE  suiteOf(d) \in Suite
<1>1. Len(results[d]) + 1 \in 1 .. Len(Runs)
  BY RunsRemain, ClientAssumption
<1> QED
  BY <1>1, ClientAssumption DEF suiteOf

LEMMA SendClientHelloAgrees ==
  ASSUME TypeInv, NonceInv, AgreeInv, NEW d \in Device, SendClientHello(d),
         UNCHANGED srvVars
  PROVE  AgreeInv'
<1>0. PICK c : c = curr(d)
  OBVIOUS
<1>1. PICK s \in Suite : s = suiteOf(d)
  BY SuiteOfTyped DEF SendClientHello
<1>2. cpc[d] = "hello" /\ Busy(d) /\ ConnInv(c, s)
  BY <1>0, AnySuite DEF SendClientHello, Busy
<1>3. /\ c \in Conn /\ owner(c) = d /\ Active(c) /\ Most(c) = 0
      /\ established[c] = NotAgreed /\ Len(sent[c]) \in Nat
  BY <1>0, <1>2, OnConnection
<1>4. /\ s_hello'[d] = HelloOf(c, s)
      /\ ss'[d] = SecretOf(c)
      /\ link' = [link EXCEPT ![c].up = PutUp(c, Frame("ClientHello", HelloOf(c, s)))]
  BY <1>0, <1>1, <1>3
     DEF SendClientHello, HelloOf, HelloPart, SecretOf, NonceInv, AgreeInv, Domains
<1>5. /\ cpc'[d] = "await"
      /\ UNCHANGED <<opened, established, sent, refused, encapsulated>>
  BY DEF SendClientHello, clientHistory, TypeInv, EndsTypeOK, ClientTypeOK
<1>6. \A x \in Conn : x # c => link'[x] = link[x]
  BY <1>3, <1>4, WrittenUp
<1>7. OnlyOn(d)
  <2>1. OthersKept(d)
    BY DEF SendClientHello, OthersKept, AgreeInv, Domains, NonceInv,
           TypeInv, EndsTypeOK, ClientTypeOK
  <2> QED
    BY <1>0, <1>6, <2>1 DEF OnlyOn, OthersKept, SendClientHello, clientHistory
<1>8. Active(c)' /\ Busy(d)'
  BY <1>3, <1>5 DEF Active, Busy
<1>9. Least(c)' = Most(c) + 1 /\ Most(c)' = Most(c) + 1
  BY <1>3, <1>5, <1>8 DEF Least, Most
<1>10. FrameAt(c, s, Most(c) + 1) = Frame("ClientHello", HelloOf(c, s))
  BY <1>3, Frames
<1>11. DeviceSide(c, s)'
  <2>1. link'[c].cli = link[c].cli
    BY <1>3, <1>4, WrittenUp
  <2> QED
    BY <1>2, <1>3, <1>4, <1>5, <1>8, <2>1
       DEF ConnInv, DeviceSide, srvVars, serverHistory
<1>12. EncapsulatesToTheServer' /\ \A x \in refused' : Pinned[owner(x)] # ServerKey
  BY <1>5 DEF AgreeInv, EncapsulatesToTheServer, srvVars, serverHistory
<1>13. Len(sent'[c]) \in Nat /\ Len(sent[c]) <= Len(sent'[c])
  BY <1>3, <1>5
<1> QED
  BY <1>0, <1>2, <1>3, <1>4, <1>5, <1>7, <1>8, <1>9, <1>10, <1>11, <1>12, <1>13,
     WritesAgree

LEMMA SendClientFinishedAgrees ==
  ASSUME TypeInv, NonceInv, AgreeInv, NEW d \in Device, SendClientFinished(d),
         UNCHANGED srvVars
  PROVE  AgreeInv'
<1>0. PICK c : c = curr(d)
  OBVIOUS
<1>1. cpc[d] = "finish" /\ Busy(d)
  BY DEF SendClientFinished, Busy
<1>2. /\ c \in Conn /\ owner(c) = d /\ Active(c) /\ Most(c) = 1
      /\ established[c] = NotAgreed /\ Len(sent[c]) \in Nat
  BY <1>0, <1>1, OnConnection
<1>3. PICK s \in Suite : ConnInv(c, s)
  BY <1>0, <1>1, OnConnection
<1>4. /\ s_hello[d] = HelloOf(c, s) /\ ss[d] = SecretOf(c)
      /\ s_frame[d] = ServerHelloOf(c, s) /\ c \in decapsulated
      /\ Pinned[d] = ServerKey /\ sent[c] = <<>>
  BY <1>1, <1>2, <1>3 DEF ConnInv, DeviceSide
<1>5. /\ s_hello[d].suite = s
      /\ ServerHelloOf(c, s).session_id = Fresh("session-id", c)
      /\ ServerHelloOf(c, s).server_mac = ServerMacOf(c, s)
      /\ IsFs(s) => ServerHelloOf(c, s).ek_eph = EphKey(c)
  <2>1. HelloOf(c, s).suite = s
    BY HelloFields
  <2> QED
    BY <1>4, <2>1 DEF ServerHelloOf, EkOf
<1> DEFINE h == s_hello[d]
           sh == s_frame[d]
           coins == Fresh("eph-coins", c)
           ct == IF IsFs(h.suite) THEN Ciphertext(sh.ek_eph, coins) ELSE NoTerm
           mine == ClientKeys(d, h, ss[d], coins, sh)
           mac == Hmac(mine.cli_confirm, <<ClientTranscript(h, ct, sh), sh.server_mac>>)
<1>6. /\ link' = [link EXCEPT ![c].up = PutUp(c, Frame("ClientFinished",
                     [ct_eph |-> ct, client_mac |-> mac]))]
      /\ established' = [established EXCEPT ![c] =
            [suite |-> h.suite, session_id |-> sh.session_id, c2s |-> mine.c2s]]
      /\ encapsulated' = IF IsFs(h.suite) THEN encapsulated \cup {<<c, sh.ek_eph>>}
                         ELSE encapsulated
      /\ n'[d] = 0
  BY <1>0 DEF SendClientFinished, TypeInv, EndsTypeOK, ClientTypeOK
<1>7. ct = CtOf(c, s) /\ mine = KeysOf(c, s)
  BY <1>2, <1>4, <1>5 DEF CtOf, KeysOf
<1> HIDE DEF ct, mine
<1>8. mac = FinishedOf(c, s).client_mac
  BY <1>4, <1>5, <1>7 DEF FinishedOf, TranscriptOf
<1> HIDE DEF mac
<1>9. link' = [link EXCEPT ![c].up = PutUp(c, FrameAt(c, s, Most(c) + 1))]
  <2>1. [ct_eph |-> ct, client_mac |-> mac] = FinishedOf(c, s)
    BY <1>7, <1>8 DEF FinishedOf
  <2>2. FrameAt(c, s, Most(c) + 1) = Frame("ClientFinished", FinishedOf(c, s))
    BY <1>2, Frames
  <2> QED
    BY <1>6, <2>1, <2>2
<1>10. /\ established'[c] = AgreedOf(c, s)
       /\ \A x \in Conn : x # c => established'[x] = established[x]
  BY <1>2, <1>4, <1>5, <1>6, <1>7 DEF AgreedOf, NonceInv, KeysInv
<1>11. /\ cpc'[d] = "data"
       /\ UNCHANGED <<opened, sent, refused>>
  BY DEF SendClientFinished, TypeInv, EndsTypeOK, ClientTypeOK
<1>12. \A x \in Conn : x # c => link'[x] = link[x]
  BY <1>2, <1>9, WrittenUp
<1>13. OnlyOn(d)
  <2>1. OthersKept(d)
    BY DEF SendClientFinished, OthersKept, AgreeInv, Domains, NonceInv,
           TypeInv, EndsTypeOK, ClientTypeOK
  <2>2. UNCHANGED <<backlog, cut>>
    BY DEF SendClientFinished
  <2> QED
    BY <1>0, <1>10, <1>11, <1>12, <2>1, <2>2 DEF OnlyOn, OthersKept
<1>14. Active(c)' /\ Busy(d)'
  BY <1>2, <1>11 DEF Active, Busy
<1>15. established'[c] # NotAgreed
  <2>1. NotAgreed.suite = "none" /\ AgreedOf(c, s).suite = s
    BY DEF NotAgreed, AgreedOf
  <2> QED
    BY <1>10, <2>1 DEF Suite
<1>16. Least(c)' = Most(c) + 1 /\ Most(c)' = Most(c) + 1
  <2>1. Len(sent'[c]) = 0
    BY <1>4, <1>11, EmptySeq
  <2> QED
    BY <1>2, <1>14, <1>15, <2>1 DEF Least, Most
<1>17. DeviceSide(c, s)'
  <2>1. link'[c].cli = link[c].cli
    BY <1>2, <1>9, WrittenUp
  <2>2. Len(sent'[c]) = 0
    BY <1>4, <1>11, EmptySeq
  <2> QED
    BY <1>2, <1>3, <1>4, <1>6, <1>10, <1>11, <1>14, <1>15, <2>1, <2>2
       DEF ConnInv, DeviceSide, srvVars, serverHistory
<1>18. EncapsulatesToTheServer' /\ \A x \in refused' : Pinned[owner(x)] # ServerKey
  <2>1. ASSUME NEW e \in encapsulated'
        PROVE  /\ e[2] = EphKey(e[1])
               /\ Pinned[owner(e[1])] = ServerKey
               /\ e[1] \in decapsulated
    <3>1. CASE e \in encapsulated
      BY <3>1 DEF AgreeInv, EncapsulatesToTheServer
    <3>2. CASE e \notin encapsulated
      <4>1. IsFs(s) /\ e = <<c, EphKey(c)>>
        BY <1>4, <1>5, <1>6, <3>2
      <4> QED
        BY <1>2, <1>4, <4>1
    <3> QED
      BY <3>1, <3>2
  <2> QED
    BY <1>11, <2>1 DEF AgreeInv, EncapsulatesToTheServer, srvVars, serverHistory
<1>19. Len(sent'[c]) \in Nat /\ Len(sent[c]) <= Len(sent'[c])
  BY <1>2, <1>11
<1> QED
  BY <1>0, <1>1, <1>2, <1>3, <1>9, <1>13, <1>14, <1>16, <1>17, <1>18, <1>19,
     WritesAgree

\* A device goes on with its handshake without writing.
LEMMA AdvancesAgree ==
  ASSUME TypeInv, NonceInv, AgreeInv, NEW d \in Device,
         cpc[d] \in {"await", "verify"}, cpc'[d] \in {"verify", "finish"},
         NEW c, c = curr(d), NEW s \in Suite, ConnInv(c, s), OnlyOn(d),
         UNCHANGED <<established, sent, refused, encapsulated>>,
         link'[c].srv = link[c].srv, link'[c].up = link[c].up,
         \/ link'[c].down = link[c].down
         \/ link[c].down # <<>> /\ link'[c].down = Tail(link[c].down),
         DeviceSide(c, s)'
  PROVE  AgreeInv'
<1>0. Busy(d) /\ Busy(d)'
  BY DEF Busy
<1>1. /\ c \in Conn /\ owner(c) = d /\ Active(c) /\ Least(c) = 1 /\ Most(c) = 1
      /\ established[c] = NotAgreed /\ Len(sent[c]) \in Nat
  BY <1>0, OnConnection
<1>2. Active(c)'
  BY <1>0, <1>1 DEF Active, OnlyOn
<1>3. Least(c)' = 1 /\ Most(c)' = 1
  BY <1>1, <1>2 DEF Least, Most
<1>4. Taken(c)' = Taken(c) /\ Taken(c) \in Nat
  BY <1>1, Counts, TakenSame, ServerIdles DEF OnlyOn
<1>5. PathSame(c) /\ UNCHANGED decapsulated
  BY DEF OnlyOn, PathSame, srvVars, serverHistory
<1>6. Queues(c, s)'
  BY <1>1, <1>3, <1>4, <1>5, QueueShrinks DEF ConnInv
<1>7. ConnInv(c, s)'
  BY <1>1, <1>6, ConnMoves DEF OnlyOn
<1>8. EncapsulatesToTheServer' /\ \A x \in refused' : Pinned[owner(x)] # ServerKey
  BY <1>5 DEF AgreeInv, EncapsulatesToTheServer
<1> QED
  BY <1>1, <1>7, <1>8, DeviceMoves

\* The only frame the gateway sends is its ServerHello for this connection.
LEMMA HeadDown ==
  ASSUME TypeInv, NEW c \in Conn, NEW s, ConnInv(c, s), link[c].down # <<>>
  PROVE  /\ Head(link[c].down) = Frame("ServerHello", ServerHelloOf(c, s))
         /\ c \in decapsulated
<1>1. PICK S : link[c].down \in Seq(S)
  BY LinkFacts
<1>2. Len(link[c].down) \in Nat \ {0} /\ Head(link[c].down) = link[c].down[1]
  BY <1>1, EmptySeq
<1> QED
  BY <1>2 DEF ConnInv, Queues

LEMMA ReadServerHelloAgrees ==
  ASSUME TypeInv, NonceInv, AgreeInv, NEW d \in Device, ReadServerHello(d),
         UNCHANGED srvVars
  PROVE  AgreeInv'
<1>0. PICK c : c = curr(d)
  OBVIOUS
<1>1. cpc[d] = "await" /\ Busy(d) /\ link[c].down # <<>>
  BY <1>0 DEF ReadServerHello, Busy
<1>2. c \in Conn /\ owner(c) = d /\ Active(c) /\ established[c] = NotAgreed
  BY <1>0, <1>1, OnConnection
<1>3. UNCHANGED <<established, sent, sealed, refused, encapsulated, opened, s_hello,
                  backlog, cut, decapsulated>>
  BY DEF ReadServerHello, clientHistory, srvVars, serverHistory
<1>4. CASE RightServerHello(d, Head(link[c].down))
  <2>1. PICK s \in Suite : ConnInv(c, s)
    BY <1>0, <1>1, OnConnection
  <2>2. Head(link[c].down) = Frame("ServerHello", ServerHelloOf(c, s)) /\ c \in decapsulated
    BY <1>1, <1>2, <2>1, HeadDown
  <2>3. /\ s_frame' = [s_frame EXCEPT ![d] = Head(link[c].down).body]
        /\ cpc' = [cpc EXCEPT ![d] = "verify"]
        /\ link' = [link EXCEPT ![c].down = Tail(@)]
        /\ UNCHANGED <<ss, n>>
    BY <1>0, <1>4 DEF ReadServerHello, runLocals
  <2>4. s_frame'[d] = ServerHelloOf(c, s) /\ cpc'[d] = "verify"
    BY <2>2, <2>3 DEF Frame, AgreeInv, Domains, TypeInv, EndsTypeOK, ClientTypeOK
  <2>5. /\ link'[c].down = Tail(link[c].down) /\ link'[c].up = link[c].up
        /\ link'[c].srv = link[c].srv /\ link'[c].cli = link[c].cli
        /\ \A x \in Conn : x # c => link'[x] = link[x]
    BY <1>2, <2>3, LinkFacts
  <2>6. OnlyOn(d)
    <3>1. OthersKept(d)
      BY <1>3, <2>3 DEF OthersKept, AgreeInv, Domains, TypeInv, EndsTypeOK, ClientTypeOK
    <3> QED
      BY <1>0, <1>3, <2>5, <3>1 DEF OnlyOn
  <2>7. DeviceSide(c, s)'
    <3>1. Active(c)'
      BY <1>2, <1>3, <2>4 DEF Active, Busy
    <3> QED
      BY <1>1, <1>2, <1>3, <2>1, <2>2, <2>3, <2>4, <2>5, <3>1 DEF ConnInv, DeviceSide
  <2> QED
    BY <1>0, <1>1, <1>2, <1>3, <2>1, <2>4, <2>5, <2>6, <2>7, AdvancesAgree
<1>5. CASE ~RightServerHello(d, Head(link[c].down))
  <2>1. Fail(d) /\ UNCHANGED s_frame
    BY <1>0, <1>5 DEF ReadServerHello
  <2>2. EncapsulatesToTheServer' /\ \A x \in refused' : Pinned[owner(x)] # ServerKey
    BY <1>3 DEF AgreeInv, EncapsulatesToTheServer
  <2> QED
    BY <1>1, <1>3, <2>1, <2>2, FailAgrees
<1> QED
  BY <1>4, <1>5

LEMMA ReadFailsAgrees ==
  ASSUME TypeInv, NonceInv, AgreeInv, NEW d \in Device, ReadFails(d),
         UNCHANGED srvVars
  PROVE  AgreeInv'
<1>1. Busy(d) /\ Fail(d)
  BY DEF ReadFails, Busy
<1>2. UNCHANGED <<established, sent, refused, encapsulated, opened, s_hello, s_frame,
                  backlog, cut, decapsulated>>
  BY DEF ReadFails, statics, clientHistory, srvVars, serverHistory
<1>3. EncapsulatesToTheServer' /\ \A x \in refused' : Pinned[owner(x)] # ServerKey
  BY <1>2 DEF AgreeInv, EncapsulatesToTheServer
<1> QED
  BY <1>1, <1>2, <1>3, FailAgrees

\* A device that goes on pins the gateway's key, one that refuses does not.
LEMMA VerifyServerMacAgrees ==
  ASSUME TypeInv, NonceInv, AgreeInv, NEW d \in Device, VerifyServerMac(d),
         UNCHANGED srvVars
  PROVE  AgreeInv'
<1>0. PICK c : c = curr(d)
  OBVIOUS
<1>1. cpc[d] = "verify" /\ Busy(d)
  BY DEF VerifyServerMac, Busy
<1>2. c \in Conn /\ owner(c) = d /\ Active(c) /\ established[c] = NotAgreed
  BY <1>0, <1>1, OnConnection
<1>3. PICK s \in Suite : ConnInv(c, s)
  BY <1>0, <1>1, OnConnection
<1>4. /\ s_hello[d] = HelloOf(c, s) /\ ss[d] = SecretOf(c)
      /\ s_frame[d] = ServerHelloOf(c, s) /\ c \in decapsulated
  BY <1>1, <1>2, <1>3 DEF ConnInv, DeviceSide
<1>5. s_frame[d].server_mac = ClientExpectedMac(d, s_hello[d], ss[d], s_frame[d])
        <=> Pinned[d] = ServerKey
  BY <1>2, <1>4, ServerMacVerifies
<1>6. UNCHANGED <<opened, established, sent, encapsulated, s_hello, s_frame,
                  backlog, cut, decapsulated>>
  BY DEF VerifyServerMac, statics, srvVars, serverHistory
<1>7. EncapsulatesToTheServer'
  BY <1>6 DEF AgreeInv, EncapsulatesToTheServer
<1>8. CASE Pinned[d] = ServerKey
  <2>1. cpc' = [cpc EXCEPT ![d] = "finish"] /\ UNCHANGED <<link, ss, n, refused>>
    BY <1>5, <1>8 DEF VerifyServerMac, runLocals
  <2>2. cpc'[d] = "finish"
    BY <2>1 DEF TypeInv, EndsTypeOK, ClientTypeOK
  <2>3. OnlyOn(d)
    <3>1. OthersKept(d)
      BY <1>6, <2>1 DEF OthersKept, TypeInv, EndsTypeOK, ClientTypeOK
    <3> QED
      BY <1>6, <2>1, <3>1 DEF OnlyOn
  <2>4. DeviceSide(c, s)'
    <3>1. Active(c)'
      BY <1>2, <1>6, <2>2 DEF Active, Busy
    <3> QED
      BY <1>2, <1>3, <1>4, <1>6, <1>8, <2>1, <2>2, <3>1 DEF ConnInv, DeviceSide
  <2> QED
    BY <1>0, <1>1, <1>3, <1>6, <2>1, <2>2, <2>3, <2>4, AdvancesAgree
<1>9. CASE Pinned[d] # ServerKey
  <2>1. Fail(d) /\ refused' = refused \cup {c}
    BY <1>0, <1>5, <1>9 DEF VerifyServerMac
  <2>2. \A x \in refused' : Pinned[owner(x)] # ServerKey
    BY <1>2, <1>9, <2>1 DEF AgreeInv
  <2> QED
    BY <1>1, <1>6, <1>7, <2>1, <2>2, FailAgrees
<1> QED
  BY <1>8, <1>9

LEMMA SendRecordAgrees ==
  ASSUME TypeInv, NonceInv, AgreeInv, NEW d \in Device, SendRecord(d),
         UNCHANGED srvVars
  PROVE  AgreeInv'
<1>0. PICK c : c = curr(d)
  OBVIOUS
<1>1. cpc[d] = "data" /\ Busy(d) /\ n[d] < RecordCount
  BY DEF SendRecord, Busy
<1>2. /\ c \in Conn /\ owner(c) = d /\ Active(c) /\ Most(c) = 2 + Len(sent[c])
      /\ established[c] # NotAgreed /\ Len(sent[c]) \in Nat
  BY <1>0, <1>1, OnConnection
<1>3. PICK s \in Suite : ConnInv(c, s)
  BY <1>0, <1>1, OnConnection
<1>4. /\ Len(sent[c]) = n[d] /\ established[c] = AgreedOf(c, s)
      /\ Pinned[d] = ServerKey /\ c \in decapsulated
  BY <1>1, <1>2, <1>3 DEF ConnInv, DeviceSide
<1>5. /\ session[d].c2s = KeysOf(c, s).c2s
      /\ session[d].session_id = Fresh("session-id", c)
      /\ session[d].send_seq = n[d]
  <2>1. /\ session[d].c2s = established[c].c2s
        /\ session[d].session_id = established[c].session_id
        /\ session[d].send_seq = n[d]
    BY <1>0, <1>1 DEF NonceInv, SessionInv
  <2>2. /\ AgreedOf(c, s).c2s = KeysOf(c, s).c2s
        /\ AgreedOf(c, s).session_id = Fresh("session-id", c)
    BY DEF AgreedOf
  <2> QED
    BY <1>4, <2>1, <2>2
<1>6. link' = [link EXCEPT ![c].up = PutUp(c, FrameAt(c, s, Most(c) + 1))]
  <2>1. FrameAt(c, s, Most(c) + 1) = Frame("Data", RecordOf(c, s, n[d]))
    BY <1>1, <1>2, <1>4, Frames
  <2>2. [seq |-> session[d].send_seq, box |-> SealNext(d)] = RecordOf(c, s, n[d])
    BY <1>5 DEF SealNext, RecordOf
  <2> QED
    BY <1>0, <2>1, <2>2 DEF SendRecord
<1>7. /\ sent' = [sent EXCEPT ![c] = Append(@, n[d])]
      /\ n'[d] = n[d] + 1 /\ n[d] \in Nat
  BY <1>0 DEF SendRecord, TypeInv, EndsTypeOK, ClientTypeOK
<1>8. UNCHANGED <<cpc, opened, established, refused, encapsulated, s_hello, ss,
                  backlog, cut, decapsulated>>
  BY DEF SendRecord, runVars, srvVars, serverHistory
<1>9. /\ Len(sent'[c]) = Len(sent[c]) + 1
      /\ \A i \in 1 .. Len(sent[c]) : sent'[c][i] = sent[c][i]
      /\ sent'[c][Len(sent[c]) + 1] = n[d]
      /\ \A x \in Conn : x # c => sent'[x] = sent[x]
  <2>1. sent \in [Conn -> Seq(Nat)]
    BY DEF TypeInv, EndsTypeOK, ClientTypeOK
  <2>2. sent[c] \in Seq(Nat) /\ sent'[c] = Append(sent[c], n[d])
        /\ \A x \in Conn : x # c => sent'[x] = sent[x]
    BY <1>2, <1>7, <2>1
  <2> QED
    BY <1>2, <1>7, <2>2, AppendProperties
<1>10. \A x \in Conn : x # c => link'[x] = link[x]
  BY <1>2, <1>6, WrittenUp
<1>11. OnlyOn(d)
  <2>1. OthersKept(d)
    BY <1>8 DEF SendRecord, OthersKept, AgreeInv, Domains, TypeInv, EndsTypeOK, ClientTypeOK
  <2> QED
    BY <1>0, <1>8, <1>9, <1>10, <2>1 DEF OnlyOn
<1>12. Active(c)' /\ Busy(d)'
  BY <1>1, <1>2, <1>8 DEF Active, Busy
<1>13. Least(c)' = Most(c) + 1 /\ Most(c)' = Most(c) + 1
  BY <1>2, <1>8, <1>9, <1>12 DEF Least, Most
<1>14. DeviceSide(c, s)'
  <2>1. link'[c].cli = link[c].cli
    BY <1>2, <1>6, WrittenUp
  <2>2. Len(sent'[c]) <= RecordCount /\ Len(sent'[c]) = n'[d]
    BY <1>1, <1>4, <1>7, <1>9, ClientAssumption
  <2>3. \A i \in 1 .. Len(sent'[c]) : sent'[c][i] = i - 1
    <3> SUFFICES ASSUME NEW i \in 1 .. Len(sent'[c])
                 PROVE  sent'[c][i] = i - 1
      OBVIOUS
    <3>1. CASE i = Len(sent[c]) + 1
      BY <1>2, <1>4, <1>9, <3>1
    <3>2. CASE i # Len(sent[c]) + 1
      <4>1. i \in 1 .. Len(sent[c])
        BY <1>2, <1>9, <3>2
      <4> QED
        BY <1>3, <1>9, <4>1 DEF ConnInv, DeviceSide
    <3> QED
      BY <3>1, <3>2
  <2> QED
    BY <1>1, <1>2, <1>3, <1>4, <1>8, <1>12, <2>1, <2>2, <2>3 DEF ConnInv, DeviceSide
<1>15. EncapsulatesToTheServer' /\ \A x \in refused' : Pinned[owner(x)] # ServerKey
  BY <1>8 DEF AgreeInv, EncapsulatesToTheServer
<1>16. Len(sent'[c]) \in Nat /\ Len(sent[c]) <= Len(sent'[c])
  BY <1>2, <1>9
<1> QED
  BY <1>0, <1>1, <1>2, <1>3, <1>6, <1>8, <1>11, <1>12, <1>13, <1>14, <1>15, <1>16,
     WritesAgree

LEMMA SendCloseAgrees ==
  ASSUME TypeInv, NonceInv, AgreeInv, NEW d \in Device, SendClose(d),
         UNCHANGED srvVars
  PROVE  AgreeInv'
<1>0. PICK c : c = curr(d)
  OBVIOUS
<1>1. cpc[d] = "data" /\ Busy(d) /\ n[d] = RecordCount
  BY DEF SendClose, Busy
<1>2. /\ c \in Conn /\ owner(c) = d /\ Active(c) /\ Most(c) = 2 + Len(sent[c])
      /\ Least(c) = Most(c)
      /\ established[c] # NotAgreed /\ Len(sent[c]) \in Nat
  BY <1>0, <1>1, OnConnection
<1>3. PICK s \in Suite : ConnInv(c, s)
  BY <1>0, <1>1, OnConnection
<1>4. Len(sent[c]) = RecordCount
  BY <1>1, <1>2, <1>3 DEF ConnInv, DeviceSide
<1>5. FrameAt(c, s, Most(c) + 1) = Frame("Close", NoTerm)
  <2>1. PICK r \in Nat : r = Len(sent[c])
    BY <1>2
  <2>2. ~(r < RecordCount)
    BY <1>4, <2>1
  <2>3. FrameAt(c, s, 2 + r + 1) = Frame("Close", NoTerm)
    BY <2>2, Frames
  <2> QED
    BY <1>2, <2>1, <2>3
<1>6. /\ link'[c].up = PutUp(c, FrameAt(c, s, Most(c) + 1))
      /\ link'[c].down = <<>> /\ link'[c].cli = "closed"
      /\ link'[c].srv = link[c].srv
      /\ \A x \in Conn : x # c => link'[x] = link[x]
  <2> DEFINE q == PutUp(c, Frame("Close", NoTerm))
  <2>1. link' = [link EXCEPT ![c].up = q, ![c].cli = "closed", ![c].down = <<>>]
    BY <1>0 DEF SendClose
  <2> HIDE DEF q
  <2>2. /\ link'[c].up = q
        /\ link'[c].down = <<>> /\ link'[c].cli = "closed"
        /\ link'[c].srv = link[c].srv
        /\ \A x \in Conn : x # c => link'[x] = link[x]
    BY <1>2, <2>1, LinkFacts
  <2> QED
    BY <1>5, <2>2 DEF q
<1>7. UNCHANGED <<opened, established, sent, refused, encapsulated, s_hello, s_frame,
                  backlog, cut, decapsulated>>
  BY DEF SendClose, statics, clientHistory, srvVars, serverHistory
<1>8. OnlyOn(d) /\ ~Busy(d)'
  <2>1. Return(d, TRUE)
    BY DEF SendClose
  <2>2. OthersKept(d) /\ ~Busy(d)'
    BY <1>7, <2>1, ReturnIsLocal DEF OthersKept, AgreeInv, Domains
  <2> QED
    BY <1>0, <1>6, <1>7, <2>2 DEF OnlyOn
<1>9. ~Active(c)'
  BY <1>2, <1>8 DEF Active
<1>10. Least(c)' = Most(c) /\ Most(c)' = Most(c) + 1
  BY <1>2, <1>4, <1>7, <1>9 DEF Least, Most
<1>11. Queues(c, s)'
  <2>1. Taken(c)' = Taken(c)
    BY <1>8, TakenSame, ServerIdles DEF OnlyOn
  <2>2. Least(c) \in Nat /\ Most(c) \in Nat /\ Taken(c) \in Nat
    BY <1>2, Counts
  <2>3. Least(c)' <= Most(c) + 1 /\ Least(c)' \in Nat
    BY <1>10, <2>2
  <2>4. PathSame(c)
    BY <1>7 DEF PathSame
  <2> QED
    BY <1>2, <1>3, <1>6, <1>7, <1>10, <2>1, <2>2, <2>3, <2>4, QueueGrows DEF ConnInv
<1>12. DeviceSide(c, s)'
  BY <1>2, <1>3, <1>6, <1>7, <1>9 DEF ConnInv, DeviceSide
<1>13. ConnInv(c, s)'
  BY <1>2, <1>3, <1>6, <1>7, <1>11, <1>12, ConnMoves
<1>14. EncapsulatesToTheServer' /\ \A x \in refused' : Pinned[owner(x)] # ServerKey
  BY <1>7 DEF AgreeInv, EncapsulatesToTheServer
<1> QED
  BY <1>0, <1>2, <1>6, <1>8, <1>13, <1>14, DeviceMoves

LEMMA StepFailsAgrees ==
  ASSUME TypeInv, NonceInv, AgreeInv, NEW d \in Device, StepFails(d),
         UNCHANGED srvVars
  PROVE  AgreeInv'
<1> DEFINE c == curr(d)
<1>1. Busy(d) /\ Fail(d)
  BY DEF StepFails, Busy
<1>2. UNCHANGED <<opened, established, sent, refused, s_hello, backlog, cut,
                  decapsulated>>
  BY DEF StepFails, srvVars, serverHistory
<1>3. s_frame' = s_frame \/ \E v : s_frame' = [s_frame EXCEPT ![d] = v]
  BY DEF StepFails
<1>4. c \in Conn /\ owner(c) = d /\ Active(c)
  BY <1>1, OnConnection
<1>5. PICK s \in Suite : ConnInv(c, s)
  BY <1>1, OnConnection
<1>6. ASSUME NEW e \in encapsulated', e \notin encapsulated
      PROVE  /\ e[2] = EphKey(e[1])
             /\ Pinned[owner(e[1])] = ServerKey
             /\ e[1] \in decapsulated
  <2>1. cpc[d] = "finish" /\ IsFs(s_hello[d].suite) /\ e = <<c, s_frame[d].ek_eph>>
    BY <1>6 DEF StepFails
  <2> HIDE DEF c
  <2>2. /\ s_hello[d] = HelloOf(c, s) /\ s_frame[d] = ServerHelloOf(c, s)
        /\ c \in decapsulated /\ Pinned[d] = ServerKey
    BY <1>4, <1>5, <2>1 DEF ConnInv, DeviceSide
  <2>3. HelloOf(c, s).suite = s
    BY HelloFields
  <2>4. s_frame[d].ek_eph = EphKey(c)
    <3>1. IsFs(s)
      BY <2>1, <2>2, <2>3
    <3>2. ServerHelloOf(c, s).ek_eph = EkOf(c, s)
      BY DEF ServerHelloOf
    <3> QED
      BY <2>2, <3>1, <3>2 DEF EkOf
  <2> QED
    BY <1>4, <2>1, <2>2, <2>4
<1>7. EncapsulatesToTheServer' /\ \A x \in refused' : Pinned[owner(x)] # ServerKey
  BY <1>2, <1>6 DEF AgreeInv, EncapsulatesToTheServer
<1> QED
  BY <1>1, <1>2, <1>3, <1>7, FailAgrees

LEMMA ClientStepAgrees ==
  ASSUME TypeInv, NonceInv, AgreeInv, NEW d \in Device, ClientStep(d),
         UNCHANGED srvVars
  PROVE  AgreeInv'
<1>1. CASE Connect(d)
  BY <1>1, ConnectAgrees
<1>2. CASE ConnectFails(d)
  BY <1>2, ConnectFailsAgrees
<1>3. CASE SendClientHello(d)
  BY <1>3, SendClientHelloAgrees
<1>4. CASE ReadServerHello(d)
  BY <1>4, ReadServerHelloAgrees
<1>5. CASE ReadFails(d)
  BY <1>5, ReadFailsAgrees
<1>6. CASE VerifyServerMac(d)
  BY <1>6, VerifyServerMacAgrees
<1>7. CASE SendClientFinished(d)
  BY <1>7, SendClientFinishedAgrees
<1>8. CASE SendRecord(d)
  BY <1>8, SendRecordAgrees
<1>9. CASE SendClose(d)
  BY <1>9, SendCloseAgrees
<1>10. CASE StepFails(d)
  BY <1>10, StepFailsAgrees
<1> QED
  BY <1>1, <1>2, <1>3, <1>4, <1>5, <1>6, <1>7, <1>8, <1>9, <1>10 DEF ClientStep

-----------------------------------------------------------------------------
(* Steps of the gateway.                                                   *)

LEMMA ClientIdles ==
  ASSUME UNCHANGED cliVars, NEW c
  PROVE  DeviceSame(c)
  BY DEF cliVars, runVars, runLocals, statics, clientHistory, DeviceSame, Active, Busy

\* A step of handle_connection happens to the connection it handles.
HandlesOnly ==
  /\ \A c \in Conn : c # conn => /\ link'[c] = link[c]
                                 /\ verdict'[c] = verdict[c]
                                 /\ RecordSame(c)
  /\ conn' \in {conn, NoConn}
  /\ decapsulated \subseteq decapsulated'
  /\ DOMAIN looked' = DOMAIN looked
  /\ DOMAIN accepted' = DOMAIN accepted
  /\ UNCHANGED <<cliVars, backlog, cut>>

\* The connection being handled, and what the gateway knows of it.
LEMMA Handled ==
  ASSUME TypeInv, AgreeInv, spc \notin {"down", "accept"}
  PROVE  /\ conn \in Conn
         /\ link[conn].srv = "open"
         /\ verdict[conn] = "none"
         /\ \E s \in Suite : ConnInv(conn, s) /\ Handling(conn, s)
<1>1. conn \in Conn
  BY DEF TypeInv, EndsTypeOK, ServerTypeOK
<1> QED
  BY <1>1 DEF AgreeInv, ConnInv, GatewaySide, Handling

\* What is left to show of a step of handle_connection.
LEMMA HandlerMoves ==
  ASSUME TypeInv, AgreeInv, spc \notin {"down", "accept"}, HandlesOnly,
         NEW c, c = conn, \E s \in Suite : ConnInv(c, s)',
         link'[c].cli = link[c].cli, link'[c].srv \in {"open", "closed"}
  PROVE  AgreeInv'
<1>1. c \in Conn /\ link[c].srv = "open"
  BY Handled
<1>2. \A x \in Conn : \E s \in Suite : ConnInv(x, s)'
  <2> SUFFICES ASSUME NEW x \in Conn, x # c
               PROVE  \E s \in Suite : ConnInv(x, s)'
    OBVIOUS
  <2>1. PICK s \in Suite : ConnInv(x, s)
    BY DEF AgreeInv
  <2>2. conn # x /\ conn' # x
    BY ConnIsNotNone DEF HandlesOnly
  <2>3. GatewaySame(x) /\ LinkSame(x)
    BY <2>2 DEF HandlesOnly, GatewaySame, LinkSame, PathSame
  <2>4. DeviceSame(x)
    BY ClientIdles DEF HandlesOnly
  <2> QED
    BY <2>1, <2>3, <2>4, Untouched
<1>3. ASSUME NEW x \in Conn, x[2] > opened'[owner(x)]
      PROVE  Unopened(x)'
  <2>1. Unopened(x)
    BY <1>3 DEF AgreeInv, HandlesOnly, cliVars
  <2> QED
    BY <1>1, <2>1 DEF HandlesOnly, Unopened
<1>4. BacklogInv'
  <2>1. backlog \in Seq(Conn)
    BY DEF TypeInv, EndsTypeOK, NetTypeOK
  <2>2. \A i \in 1 .. Len(backlog) : backlog[i] \in Conn
    BY <2>1
  <2>3. \A i \in 1 .. Len(backlog) : backlog[i] # c
    BY <1>1 DEF AgreeInv, BacklogInv
  <2> QED
    BY <2>2, <2>3 DEF AgreeInv, BacklogInv, HandlesOnly
<1>5. EncapsulatesToTheServer' /\ \A x \in refused' : Pinned[owner(x)] # ServerKey
  BY DEF AgreeInv, EncapsulatesToTheServer, HandlesOnly, cliVars, clientHistory
<1>6. Domains'
  BY DEF AgreeInv, Domains, HandlesOnly, cliVars, runLocals, statics
<1> QED
  BY <1>2, <1>3, <1>4, <1>5, <1>6 DEF AgreeInv

\* The gateway's end of a connection is closed, by a return or by the kernel.
LEMMA Released ==
  ASSUME TypeInv, NEW c \in Conn, NEW s, ConnInv(c, s), DeviceSame(c), conn' # c,
         link'[c].srv = "closed", link'[c].up = <<>>,
         link'[c].down = link[c].down, link'[c].cli = link[c].cli,
         c \in decapsulated' <=> c \in decapsulated,
         accepted'[c] = accepted[c], delivered'[c] = delivered[c],
         c \in decapsulated => looked'[c] = looked[c],
         Outcome(c)'
  PROVE  ConnInv(c, s)'
<1>1. DeviceSide(c, s)'
  BY DEF ConnInv, DeviceSide, DeviceSame
<1>2. Queues(c, s)'
  <2>1. Taken(c)' = 0
    BY DEF Taken
  <2>2. Most(c)' \in Nat
    BY Counts, MostSame
  <2> QED
    BY <2>1, <2>2, QueueDropped DEF ConnInv
<1>3. GatewaySide(c, s)'
  BY DEF ConnInv, GatewaySide, DeviceSame, Vetted
<1> QED
  BY <1>1, <1>2, <1>3 DEF ConnInv

\* The verdict v is true of connection c.
TrueOf(v, c) ==
  /\ v = "wrong-key" => KeyId[Pinned[owner(c)]] # ServerKeyId
  /\ v = "unknown-device" => looked'[c] = NoPsk
  /\ v = "psk-mac" => looked'[c] # DevicePsk[owner(c)]
  /\ v \notin {"client-mac", "bad-frame", "bad-record"}
  /\ v = "closed" => ~Active(c) /\ delivered[c] = sent[c]

\* What handle_connection has looked up is nothing to other connections, nor to
\* one that has been decapsulated for.
LookedKept(c) ==
  /\ \A x \in Conn : x # c => looked'[x] = looked[x]
  /\ DOMAIN looked' = DOMAIN looked
  /\ c \in decapsulated => looked'[c] = looked[c]

\* handle_connection returns or raises, for a reason that holds.
LEMMA LeaveAgrees ==
  ASSUME TypeInv, AgreeInv, spc \notin {"down", "accept"}, NEW v, Leave(v),
         NEW c, c = conn,
         UNCHANGED <<cliVars, backlog, cut, decapsulated, accepted, delivered>>,
         LookedKept(c), TrueOf(v, c)
  PROVE  AgreeInv'
<1>1. c \in Conn
  BY Handled
<1>2. PICK s \in Suite : ConnInv(c, s)
  BY Handled
<1>3. /\ link'[c].srv = "closed" /\ link'[c].up = <<>>
      /\ link'[c].down = link[c].down /\ link'[c].cli = link[c].cli
      /\ \A x \in Conn : x # c => link'[x] = link[x]
  BY <1>1, LinkFacts DEF Leave
<1>4. /\ verdict'[c] = v
      /\ \A x \in Conn : x # c => verdict'[x] = verdict[x]
  BY <1>1 DEF Leave, TypeInv, EndsTypeOK, ServerTypeOK
<1>5. conn' = NoConn /\ conn' # c
  BY <1>1, ConnIsNotNone DEF Leave
<1>6. DeviceSame(c)
  BY ClientIdles
<1>7. Outcome(c)'
  BY <1>4, <1>6 DEF TrueOf, Outcome, DeviceSame
<1>8. ConnInv(c, s)'
  BY <1>1, <1>2, <1>3, <1>5, <1>6, <1>7, Released DEF LookedKept
<1>9. HandlesOnly
  BY <1>3, <1>4, <1>5 DEF HandlesOnly, RecordSame, LookedKept
<1> QED
  BY <1>3, <1>8, <1>9, HandlerMoves

\* handle_connection goes on.
LEMMA GoesOnAgrees ==
  ASSUME TypeInv, NonceInv, AgreeInv, spc \notin {"down", "accept"},
         NEW c, c = conn, NEW s \in Suite, ConnInv(c, s), HandlesOnly,
         conn' = conn, link'[c].cli = link[c].cli, link'[c].srv = link[c].srv,
         verdict'[c] = verdict[c],
         \/ c \in decapsulated' => c \in decapsulated
         \/ Most(c) >= 1,
         Queues(c, s)', GatewaySide(c, s)'
  PROVE  AgreeInv'
<1>1. c \in Conn /\ link[c].srv = "open" /\ verdict[c] = "none"
  BY Handled
<1>2. DeviceSame(c)
  BY ClientIdles DEF HandlesOnly
<1>3. (Active(c) /\ cpc[owner(c)] = "hello") => Most(c) = 0
  <2>1. SUFFICES ASSUME Active(c), cpc[owner(c)] = "hello" PROVE Most(c) = 0
    OBVIOUS
  <2>2. owner(c) \in Device /\ c = curr(owner(c)) /\ Busy(owner(c))
    BY <1>1, <2>1, ConnIsPair, OnlyCurrIsActive DEF Active
  <2> QED
    BY <2>1, <2>2, OnConnection
<1>4. DeviceSide(c, s)'
  BY <1>1, <1>2, <1>3 DEF ConnInv, DeviceSide, DeviceSame, HandlesOnly
<1>5. Outcome(c)'
  BY <1>1 DEF Outcome
<1>6. ConnInv(c, s)'
  BY <1>4, <1>5 DEF ConnInv
<1> QED
  BY <1>1, <1>6, HandlerMoves

\* accept() returns the longest waiting connection, which nobody has read from.
LEMMA AcceptAgrees ==
  ASSUME TypeInv, AgreeInv, Accept, UNCHANGED cliVars
  PROVE  AgreeInv'
<1>0. PICK c : c = Head(backlog)
  OBVIOUS
<1>1. /\ backlog \in Seq(Conn) /\ backlog # <<>> /\ backlog' = Tail(backlog)
      /\ conn = NoConn /\ conn' = c /\ spc' = "hello"
  BY <1>0 DEF Accept, TypeInv, EndsTypeOK, NetTypeOK, ServerTypeOK
<1>2. /\ Len(backlog) \in Nat \ {0} /\ c = backlog[1]
      /\ Len(backlog') = Len(backlog) - 1
      /\ \A i \in 1 .. Len(backlog') : backlog'[i] = backlog[i + 1]
      /\ \A i \in 1 .. Len(backlog) : backlog[i] \in Conn
  BY <1>0, <1>1, EmptySeq, HeadTailProperties, ElementOfSeq
<1>3. c \in Conn /\ link[c].srv = "queued"
  BY <1>2 DEF AgreeInv, BacklogInv
<1>4. /\ link'[c].srv = "open" /\ link'[c].cli = link[c].cli
      /\ link'[c].up = link[c].up /\ link'[c].down = link[c].down
      /\ \A x \in Conn : x # c => link'[x] = link[x]
  BY <1>0, <1>3, LinkFacts DEF Accept
<1>5. UNCHANGED <<cut, verdict, looked, decapsulated, accepted, delivered, hello, psk,
                  hs, keys, inbound>>
  BY DEF Accept, locals, serverHistory
<1>6. \A x \in Conn : DeviceSame(x)
  BY ClientIdles
<1>7. PICK s \in Suite : ConnInv(c, s)
  BY <1>3 DEF AgreeInv
<1>8. Untried(c) /\ conn # c
  BY <1>1, <1>3, <1>7, ConnIsNotNone DEF ConnInv, GatewaySide
<1>9. ConnInv(c, s)'
  <2>0. DeviceSame(c)
    BY <1>3, <1>6
  <2>1. DeviceSide(c, s)'
    BY <1>4, <1>5, <1>7, <2>0 DEF ConnInv, DeviceSide, DeviceSame
  <2>2. Queues(c, s)'
    <3>1. Taken(c) = 0 /\ Taken(c)' = 0
      BY <1>1, <1>8 DEF Taken
    <3>2. Least(c)' = Least(c) /\ Most(c)' = Most(c)
      BY <2>0, MostSame
    <3>3. ReachesServer(c)' <=> ReachesServer(c)
      BY <1>3, <1>4, <1>5 DEF ReachesServer
    <3> QED
      BY <1>3, <1>4, <1>5, <1>7, <3>1, <3>2, <3>3 DEF ConnInv, Queues
  <2>3. GatewaySide(c, s)'
    BY <1>1, <1>3, <1>4, <1>5, <1>7, <1>8, <2>0
       DEF ConnInv, GatewaySide, Handling, Untried, DeviceSame, Vetted
  <2>4. Outcome(c)'
    BY <1>5, <1>8 DEF Outcome, Untried
  <2> QED
    BY <2>1, <2>2, <2>3, <2>4 DEF ConnInv
<1>10. ASSUME NEW x \in Conn, x # c
       PROVE  \E t \in Suite : ConnInv(x, t)'
  <2>1. PICK t \in Suite : ConnInv(x, t)
    BY DEF AgreeInv
  <2>2. GatewaySame(x) /\ LinkSame(x)
    BY <1>1, <1>4, <1>5, <1>10, ConnIsNotNone
       DEF GatewaySame, RecordSame, LinkSame, PathSame
  <2> QED
    BY <1>6, <2>1, <2>2, Untouched
<1>11. ASSUME NEW x \in Conn, x[2] > opened'[owner(x)]
       PROVE  Unopened(x)'
  <2>1. Unopened(x)
    BY <1>11 DEF AgreeInv, cliVars
  <2> QED
    BY <1>3, <1>4, <2>1 DEF Unopened
<1>12. BacklogInv'
  <2>1. ASSUME NEW i \in 1 .. Len(backlog')
        PROVE  link'[backlog'[i]].srv = "queued"
    <3>1. i + 1 \in 1 .. Len(backlog) /\ backlog'[i] = backlog[i + 1] /\ i + 1 # 1
      BY <1>2
    <3>2. backlog[i + 1] # c /\ backlog[i + 1] \in Conn
      BY <1>2, <3>1 DEF AgreeInv, BacklogInv
    <3> QED
      BY <1>4, <3>1, <3>2 DEF AgreeInv, BacklogInv
  <2>2. ASSUME NEW i \in 1 .. Len(backlog'), NEW j \in 1 .. Len(backlog'),
               backlog'[i] = backlog'[j]
        PROVE  i = j
    <3>1. /\ i + 1 \in 1 .. Len(backlog) /\ j + 1 \in 1 .. Len(backlog)
          /\ backlog[i + 1] = backlog[j + 1]
      BY <1>2, <2>2
    <3>2. i + 1 = j + 1
      BY <3>1 DEF AgreeInv, BacklogInv
    <3> QED
      BY <3>2
  <2> QED
    BY <2>1, <2>2 DEF BacklogInv
<1>13. EncapsulatesToTheServer' /\ \A x \in refused' : Pinned[owner(x)] # ServerKey
  BY <1>5 DEF AgreeInv, EncapsulatesToTheServer, cliVars, clientHistory
<1>14. Domains'
  BY <1>5 DEF AgreeInv, Domains, cliVars, runLocals, statics
<1> QED
  BY <1>7, <1>9, <1>10, <1>11, <1>12, <1>13, <1>14 DEF AgreeInv

\* The first frame of a connection is its device's ClientHello.
LEMMA ReadClientHelloAgrees ==
  ASSUME TypeInv, NonceInv, AgreeInv, ReadClientHello, UNCHANGED cliVars
  PROVE  AgreeInv'
<1>0. PICK c : c = conn
  OBVIOUS
<1>1. spc = "hello" /\ link[c].up # <<>>
  BY <1>0 DEF ReadClientHello
<1>2. c \in Conn /\ link[c].srv = "open"
  BY <1>0, <1>1, Handled
<1>3. PICK s \in Suite : ConnInv(c, s) /\ Handling(c, s)
  BY <1>0, <1>1, Handled
<1>4. Taken(c) = 0 /\ Most(c) \in Nat /\ Least(c) \in Nat
  BY <1>0, <1>1, <1>2, Counts DEF Taken
<1>5. Head(link[c].up) = Frame("ClientHello", HelloOf(c, s))
  <2>1. Head(link[c].up) = FrameAt(c, s, 1)
    BY <1>1, <1>2, <1>3, <1>4, HeadIsNext DEF ConnInv
  <2> QED
    BY <2>1, Frames
<1>6. Parses(Head(link[c].up))
  <2>1. HelloOf(c, s).suite = s
    BY HelloFields
  <2> QED
    BY <1>5, <2>1 DEF Parses, Frame, Suite
<1>7. /\ spc' = "auth" /\ conn' = c /\ hello' = HelloOf(c, s)
      /\ link' = [link EXCEPT ![c].up = Tail(@)]
      /\ UNCHANGED <<cut, backlog, verdict, looked, decapsulated, accepted, delivered,
                     psk, hs, keys, inbound>>
  BY <1>0, <1>5, <1>6 DEF ReadClientHello, Continue, TakeFrame, Frame
<1>8. /\ link'[c].up = Tail(link[c].up) /\ link'[c].down = link[c].down
      /\ link'[c].srv = link[c].srv /\ link'[c].cli = link[c].cli
      /\ \A x \in Conn : x # c => link'[x] = link[x]
  BY <1>2, <1>7, TookFrame
<1>9. HandlesOnly
  BY <1>0, <1>7, <1>8 DEF HandlesOnly, RecordSame
<1>10. DeviceSame(c)
  BY ClientIdles
<1>11. Queues(c, s)'
  <2>1. Taken(c)' = Taken(c) + 1
    BY <1>4, <1>7 DEF Taken
  <2>2. Least(c)' = Least(c) /\ Most(c)' = Most(c)
    BY <1>10, MostSame, <1>2
  <2>3. PathSame(c)
    BY <1>7 DEF PathSame
  <2> QED
    BY <1>1, <1>2, <1>3, <1>4, <1>7, <1>8, <2>1, <2>2, <2>3, QueueTaken DEF ConnInv
<1>12. GatewaySide(c, s)'
  BY <1>0, <1>1, <1>2, <1>3, <1>7, <1>8, <1>10
     DEF ConnInv, GatewaySide, Handling, Untried, DeviceSame, Vetted
<1> QED
  BY <1>0, <1>1, <1>3, <1>7, <1>8, <1>9, <1>11, <1>12, GoesOnAgrees

\* The gateway has all the device sent if it has as many.
LEMMA DeliveredAll ==
  ASSUME TypeInv, NEW c \in Conn, NEW s, ConnInv(c, s),
         Len(sent[c]) <= Len(delivered[c])
  PROVE  delivered[c] = sent[c]
<1>1. sent[c] \in Seq(Nat) /\ delivered[c] \in Seq(Nat)
  BY DEF TypeInv, EndsTypeOK, ClientTypeOK, ServerTypeOK
<1>2. Len(sent[c]) \in Nat /\ Len(delivered[c]) \in Nat
  BY LinkFacts
<1>3. Len(delivered[c]) = Len(sent[c])
  BY <1>2 DEF ConnInv, GatewaySide
<1>4. \A i \in 1 .. Len(delivered[c]) : delivered[c][i] = sent[c][i]
  BY <1>3 DEF ConnInv, GatewaySide, DeviceSide
<1> QED
  BY <1>1, <1>3, <1>4, SeqEqual

LEMMA ReadEndsAgrees ==
  ASSUME TypeInv, NonceInv, AgreeInv, ReadEnds, UNCHANGED cliVars
  PROVE  AgreeInv'
<1>0. PICK c : c = conn
  OBVIOUS
<1>1. spc \in {"hello", "finished", "data"} /\ link[c].up = <<>>
  BY <1>0 DEF ReadEnds
<1>2. c \in Conn /\ link[c].srv = "open"
  BY <1>0, <1>1, Handled
<1>3. PICK s \in Suite : ConnInv(c, s) /\ Handling(c, s)
  BY <1>0, <1>1, Handled
<1>4. UNCHANGED <<cliVars, backlog, cut, decapsulated, accepted, delivered, looked>>
  BY DEF ReadEnds
<1>5. LookedKept(c)
  BY <1>4 DEF LookedKept
<1>6. CASE ServerSeesEnd(c) /\ spc = "data"
  <2>1. Leave("closed")
    BY <1>0, <1>6 DEF ReadEnds
  <2>2. ~Active(c)
    <3>1. link[c].cli = "closed"
      BY <1>6 DEF ServerSeesEnd
    <3> QED
      BY <1>3, <3>1 DEF ConnInv, DeviceSide
  <2>3. Least(c) = 2 + Len(sent[c]) /\ Taken(c) = 2 + Len(delivered[c])
    <3>1. established[c] # NotAgreed
      BY <1>3, <1>6 DEF ConnInv, GatewaySide, Handling
    <3> QED
      BY <1>0, <1>6, <3>1 DEF Least, Taken
  <2>4. Least(c) <= Taken(c)
    <3>1. ReachesServer(c)
      BY <1>2, <1>6 DEF ReachesServer, ServerSeesEnd
    <3>2. Least(c) <= Taken(c) + Len(link[c].up)
      BY <1>3, <3>1 DEF ConnInv, Queues
    <3>3. Len(link[c].up) = 0 /\ Taken(c) \in Nat
      BY <1>1, <1>2, EmptySeq, Counts
    <3> QED
      BY <3>2, <3>3
  <2>5. delivered[c] = sent[c]
    <3>1. Len(sent[c]) <= Len(delivered[c])
      BY <1>2, <2>3, <2>4, LinkFacts
    <3> QED
      BY <1>2, <1>3, <3>1, DeliveredAll
  <2>6. TrueOf("closed", c)
    BY <2>2, <2>5 DEF TrueOf
  <2> QED
    BY <1>0, <1>1, <1>4, <1>5, <2>1, <2>6, LeaveAgrees
<1>7. CASE ~(ServerSeesEnd(c) /\ spc = "data")
  <2>1. Leave("dropped")
    BY <1>0, <1>7 DEF ReadEnds
  <2>2. TrueOf("dropped", c)
    BY DEF TrueOf
  <2> QED
    BY <1>0, <1>1, <1>4, <1>5, <2>1, <2>2, LeaveAgrees
<1> QED
  BY <1>6, <1>7

\* The gateway turns a genuine device away only for what it was provisioned with.
LEMMA AuthenticateAgrees ==
  ASSUME TypeInv, NonceInv, AgreeInv, Authenticate, UNCHANGED cliVars
  PROVE  AgreeInv'
<1>0. PICK c : c = conn
  OBVIOUS
<1>1. spc = "auth"
  BY DEF Authenticate
<1>2. c \in Conn /\ link[c].srv = "open" /\ conn = c
  BY <1>0, <1>1, Handled
<1>3. PICK s \in Suite : ConnInv(c, s) /\ Handling(c, s)
  BY <1>0, <1>1, Handled
<1>4. hello = HelloOf(c, s) /\ Untried(c)
  BY <1>1, <1>3 DEF Handling
<1>5. UNCHANGED <<cliVars, backlog, cut, decapsulated, accepted, delivered>>
  BY DEF Authenticate
<1>6. hello.key_id = KeyId[Pinned[owner(c)]]
  BY <1>4, HelloFields
<1>7. \A k : HelloVerifies(k) <=> k = DevicePsk[owner(c)]
  BY <1>4, OnePskVerifies
<1>8. DOMAIN looked = Conn /\ c \notin decapsulated
  BY <1>4 DEF AgreeInv, Domains, Untried
<1>9. CASE hello.key_id # ServerKeyId
  <2>1. Leave("wrong-key") /\ UNCHANGED looked
    BY <1>9 DEF Authenticate
  <2>2. TrueOf("wrong-key", c) /\ LookedKept(c)
    BY <1>6, <1>9, <2>1 DEF TrueOf, LookedKept
  <2> QED
    BY <1>0, <1>1, <1>5, <2>1, <2>2, LeaveAgrees
<1>10. CASE hello.key_id = ServerKeyId
  <2>0. PICK k : k = table[hello.device]
    OBVIOUS
  <2>1. looked' = [looked EXCEPT ![c] = k]
    BY <1>0, <1>10, <2>0 DEF Authenticate
  <2>2. /\ looked'[c] = k /\ DOMAIN looked' = DOMAIN looked
        /\ \A x \in Conn : x # c => looked'[x] = looked[x]
    BY <1>2, <1>8, <2>1
  <2>3. LookedKept(c)
    BY <1>8, <2>2 DEF LookedKept
  <2>4. CASE k = NoPsk /\ Leave("unknown-device")
    <3>1. TrueOf("unknown-device", c)
      BY <2>2, <2>4 DEF TrueOf
    <3> QED
      BY <1>0, <1>1, <1>5, <2>4, <2>3, <3>1, LeaveAgrees
  <2>5. CASE k # NoPsk /\ ~HelloVerifies(k) /\ Leave("psk-mac")
    <3>1. TrueOf("psk-mac", c)
      BY <1>7, <2>2, <2>5 DEF TrueOf
    <3> QED
      BY <1>0, <1>1, <1>5, <2>5, <2>3, <3>1, LeaveAgrees
  <2>6. CASE /\ k # NoPsk /\ HelloVerifies(k) /\ Continue("decaps") /\ psk' = k
             /\ UNCHANGED <<link, hello, hs, keys, inbound, ephFiles>>
    <3>1. k = DevicePsk[owner(c)]
      BY <1>7, <2>6
    <3>2. spc' = "decaps" /\ conn' = conn /\ UNCHANGED <<link, verdict, hello, hs>>
      BY <2>6 DEF Continue
    <3>3. HandlesOnly
      BY <1>0, <1>5, <2>2, <3>2 DEF HandlesOnly, RecordSame
    <3>4. DeviceSame(c)
      BY ClientIdles
    <3>5. Queues(c, s)'
      <4>1. Taken(c)' = Taken(c)
        BY <1>1, <1>2, <3>2 DEF Taken
      <4>2. Least(c)' = Least(c) /\ Most(c)' = Most(c)
        BY <3>4, MostSame
      <4> QED
        BY <1>3, <1>5, <3>2, <4>1, <4>2 DEF ConnInv, Queues, ReachesServer
    <3>6. GatewaySide(c, s)'
      <4>1. Vetted(c)'
        BY <1>6, <1>10, <2>2, <3>1 DEF Vetted
      <4>2. Handling(c, s)'
        BY <1>1, <1>3, <1>4, <1>5, <2>6, <3>1, <3>2, <4>1 DEF Handling, Untried
      <4> QED
        BY <1>0, <1>2, <1>3, <1>5, <1>8, <3>2, <3>4, <4>1, <4>2
           DEF ConnInv, GatewaySide, DeviceSame
    <3> QED
      BY <1>0, <1>1, <1>3, <1>5, <3>2, <3>3, <3>5, <3>6, GoesOnAgrees
  <2> QED
    BY <1>10, <2>0, <2>4, <2>5, <2>6 DEF Authenticate
<1> QED
  BY <1>9, <1>10

\* Whoever is decapsulated for has been authenticated.
LEMMA DecapsulateStaticAgrees ==
  ASSUME TypeInv, NonceInv, AgreeInv, DecapsulateStatic, UNCHANGED cliVars
  PROVE  AgreeInv'
<1>0. PICK c : c = conn
  OBVIOUS
<1>1. spc = "decaps"
  BY DEF DecapsulateStatic
<1>2. c \in Conn /\ link[c].srv = "open" /\ conn = c
  BY <1>0, <1>1, Handled
<1>3. PICK s \in Suite : ConnInv(c, s) /\ Handling(c, s)
  BY <1>0, <1>1, Handled
<1>4. hello = HelloOf(c, s) /\ Vetted(c)
  BY <1>1, <1>3 DEF Handling
<1>5. /\ spc' = "answer" /\ conn' = conn
      /\ hs' = HsDrawn(c, s)
      /\ decapsulated' = decapsulated \cup {c}
      /\ UNCHANGED <<link, backlog, cut, verdict, hello, psk, looked, accepted, delivered>>
  BY <1>0, <1>4 DEF DecapsulateStatic, Continue, netVars, HsDrawn, GatewaySecretOf
<1>6. HandlesOnly
  BY <1>0, <1>5 DEF HandlesOnly, RecordSame
<1>7. DeviceSame(c)
  BY ClientIdles
<1>8. Taken(c) = 1
  BY <1>1, <1>2 DEF Taken
<1>9. Queues(c, s)'
  <2>1. Taken(c)' = Taken(c)
    BY <1>2, <1>5, <1>8 DEF Taken
  <2>2. Least(c)' = Least(c) /\ Most(c)' = Most(c)
    BY <1>7, MostSame
  <2> QED
    BY <1>3, <1>5, <2>1, <2>2 DEF ConnInv, Queues, ReachesServer
<1>10. Most(c) >= 1
  <2>1. 1 + Len(link[c].up) <= Most(c)
    BY <1>3, <1>8 DEF ConnInv, Queues
  <2> QED
    BY <1>2, <2>1, LinkFacts, Counts
<1>11. GatewaySide(c, s)'
  <2>1. Handling(c, s)'
    BY <1>1, <1>3, <1>4, <1>5 DEF Handling
  <2> QED
    BY <1>0, <1>2, <1>3, <1>4, <1>5, <1>7, <2>1
       DEF ConnInv, GatewaySide, DeviceSame, Vetted
<1> QED
  BY <1>0, <1>1, <1>3, <1>5, <1>6, <1>9, <1>10, <1>11, GoesOnAgrees

\* The gateway's answer is the one ServerHello there is for the connection.
LEMMA SendServerHelloAgrees ==
  ASSUME TypeInv, NonceInv, AgreeInv, SendServerHello, UNCHANGED cliVars
  PROVE  AgreeInv'
<1>0. PICK c : c = conn
  OBVIOUS
<1>1. spc = "answer"
  BY DEF SendServerHello
<1>2. c \in Conn /\ link[c].srv = "open" /\ conn = c
  BY <1>0, <1>1, Handled
<1>3. PICK s \in Suite : ConnInv(c, s) /\ Handling(c, s)
  BY <1>0, <1>1, Handled
<1>4. /\ hello = HelloOf(c, s) /\ psk = DevicePsk[owner(c)]
      /\ hs = HsDrawn(c, s) /\ c \in decapsulated
  BY <1>1, <1>3 DEF Handling
<1>5. UNCHANGED <<cliVars, backlog, cut, looked, decapsulated, accepted, delivered>>
  BY DEF SendServerHello
<1>6. LookedKept(c) /\ TrueOf("dropped", c)
  BY <1>5 DEF LookedKept, TrueOf
<1>7. CASE Leave("dropped")
  BY <1>0, <1>1, <1>5, <1>6, <1>7, LeaveAgrees
<1>8. CASE ~Leave("dropped")
  <2> DEFINE fs == SuiteFs(hello.suite)
             ek == IF fs THEN EphKey(conn) ELSE NoTerm
             th2 == transcript_2(hello, hs.server_nonce, hs.session_id, ek)
             stage1 == derive_keys(hs.ss_static, psk, hello.client_nonce,
                                   hs.server_nonce, th2)
             srv_confirm == IF fs
                            THEN derive_stage1(hs.ss_static, psk, hello.client_nonce,
                                               hs.server_nonce, th2)
                            ELSE stage1.srv_confirm
             mac == Hmac(srv_confirm, <<th2>>)
             body == [server_nonce |-> hs.server_nonce, session_id |-> hs.session_id,
                      ek_eph |-> ek, server_mac |-> mac]
  <2>1. /\ link' = [link EXCEPT ![c].down = PutDown(c, Frame("ServerHello", body))]
        /\ hs' = [hs EXCEPT !.th2 = th2, !.server_mac = mac]
        /\ spc' = "finished" /\ conn' = conn
        /\ UNCHANGED <<verdict, hello, psk>>
    BY <1>0, <1>8 DEF SendServerHello, Continue
  <2>2. /\ hs.ss_static = GatewaySecretOf(c, s)
        /\ hs.server_nonce = Fresh("server-nonce", c)
        /\ hs.session_id = Fresh("session-id", c)
    BY <1>4 DEF HsDrawn
  <2>3. ek = EkOf(c, s)
    <3>1. HelloOf(c, s).suite = s
      BY HelloFields
    <3> QED
      BY <1>0, <1>4, <3>1 DEF SuiteFs, IsFs, EkOf
  <2> HIDE DEF ek
  <2>4. th2 = Th2Of(c, s)
    BY <1>4, <2>2, <2>3 DEF Th2Of
  <2> HIDE DEF th2
  <2>5. srv_confirm = derive_stage1(hs.ss_static, psk, hello.client_nonce,
                                    hs.server_nonce, th2)
    BY DEF derive_keys, derive_stage1
  <2> HIDE DEF srv_confirm
  <2>6. mac = ServerMacOf(c, s)
    <3>1. hello.client_nonce = Fresh("client-nonce", c)
      BY <1>4, HelloFields
    <3> QED
      BY <1>4, <2>2, <2>4, <2>5, <3>1 DEF ServerMacOf
  <2> HIDE DEF mac
  <2>7. body = ServerHelloOf(c, s)
    BY <2>2, <2>3, <2>6 DEF ServerHelloOf
  <2> HIDE DEF body
  <2>8. hs' = HsSent(c, s)
    BY <1>4, <2>1, <2>4, <2>6 DEF HsSent
  <2> DEFINE f == Frame("ServerHello", ServerHelloOf(c, s))
             q == PutDown(c, f)
  <2>9. link' = [link EXCEPT ![c].down = q]
    BY <2>1, <2>7
  <2> HIDE DEF f, q
  <2>10. /\ link'[c].down = q /\ link'[c].up = link[c].up
         /\ link'[c].srv = link[c].srv /\ link'[c].cli = link[c].cli
         /\ \A x \in Conn : x # c => link'[x] = link[x]
    BY <1>2, <2>9, LinkFacts
  <2>11. \A i \in 1 .. Len(q) : q[i] = f
    <3>1. CASE q = link[c].down
      BY <1>3, <3>1 DEF ConnInv, Queues, f
    <3>2. CASE q = Append(link[c].down, f)
      <4>1. PICK S : link[c].down \in Seq(S)
        BY <1>2, LinkFacts
      <4>2. link[c].down \in Seq(S \cup {f})
        BY <4>1, SeqMonotonic
      <4>3. /\ Len(q) = Len(link[c].down) + 1 /\ Len(link[c].down) \in Nat
            /\ \A i \in 1 .. Len(link[c].down) : q[i] = link[c].down[i]
            /\ q[Len(link[c].down) + 1] = f
        BY <3>2, <4>2, AppendProperties, LenProperties
      <4>4. \A i \in 1 .. Len(link[c].down) : q[i] = f
        BY <1>3, <4>3 DEF ConnInv, Queues, f
      <4> QED
        BY <4>3, <4>4
    <3> QED
      BY <3>1, <3>2 DEF PutDown, q
  <2>12. HandlesOnly
    BY <1>0, <1>5, <2>1, <2>10 DEF HandlesOnly, RecordSame
  <2>13. DeviceSame(c)
    BY ClientIdles
  <2>14. Queues(c, s)'
    <3>1. Taken(c)' = Taken(c)
      BY <1>1, <1>2, <2>1 DEF Taken
    <3>2. Least(c)' = Least(c) /\ Most(c)' = Most(c)
      BY <2>13, MostSame
    <3>3. ReachesServer(c)' <=> ReachesServer(c)
      BY <1>5, <2>10 DEF ReachesServer
    <3>4. \A i \in 1 .. Len(link'[c].down) :
            link'[c].down[i] = Frame("ServerHello", ServerHelloOf(c, s))
      BY <2>10, <2>11 DEF f
    <3> QED
      BY <1>3, <1>4, <1>5, <2>10, <3>1, <3>2, <3>3, <3>4 DEF ConnInv, Queues
  <2>15. GatewaySide(c, s)'
    <3>1. Handling(c, s)'
      BY <1>1, <1>3, <1>4, <1>5, <2>1, <2>8 DEF Handling
    <3> QED
      BY <1>0, <1>2, <1>3, <1>5, <2>1, <2>10, <2>13, <3>1
         DEF ConnInv, GatewaySide, DeviceSame, Vetted
  <2> QED
    BY <1>0, <1>1, <1>3, <1>5, <2>1, <2>10, <2>12, <2>14, <2>15, GoesOnAgrees
<1> QED
  BY <1>7, <1>8

\* The second frame of a connection is its device's ClientFinished, under the
\* keys the gateway derives too.
LEMMA ReadClientFinishedAgrees ==
  ASSUME TypeInv, NonceInv, AgreeInv, ReadClientFinished, UNCHANGED cliVars
  PROVE  AgreeInv'
<1>0. PICK c : c = conn
  OBVIOUS
<1>1. spc = "finished" /\ link[c].up # <<>>
  BY <1>0 DEF ReadClientFinished
<1>2. c \in Conn /\ link[c].srv = "open" /\ conn = c
  BY <1>0, <1>1, Handled
<1>3. PICK s \in Suite : ConnInv(c, s) /\ Handling(c, s)
  BY <1>0, <1>1, Handled
<1>4. /\ hello = HelloOf(c, s) /\ psk = DevicePsk[owner(c)]
      /\ hs = HsSent(c, s) /\ c \in decapsulated
  BY <1>1, <1>3 DEF Handling
<1>5. Taken(c) = 1 /\ Most(c) \in Nat /\ Least(c) \in Nat
  BY <1>1, <1>2, Counts DEF Taken
<1>6. Head(link[c].up) = Frame("ClientFinished", FinishedOf(c, s)) /\ 2 <= Most(c)
  <2>1. Head(link[c].up) = FrameAt(c, s, 2) /\ 2 <= Most(c)
    BY <1>1, <1>2, <1>3, <1>5, HeadIsNext DEF ConnInv
  <2> QED
    BY <2>1, Frames
<1>7. established[c] # NotAgreed
  <2>1. established[c] = NotAgreed => Most(c) \in {0, 1}
    BY DEF Most
  <2> QED
    BY <1>6, <2>1
<1>8. Pinned[owner(c)] = ServerKey
  BY <1>3, <1>7 DEF ConnInv, DeviceSide
<1>9. HelloOf(c, s).suite = s
  BY HelloFields
<1>10. RightFinished(Head(link[c].up))
  <2>1. SuiteFs(hello.suite) <=> IsFs(s)
    BY <1>4, <1>9 DEF SuiteFs, IsFs
  <2>2. FinishedOf(c, s).ct_eph = CtOf(c, s)
    BY DEF FinishedOf
  <2>3. CtOf(c, s) # NoTerm <=> IsFs(s)
    BY NamesAreTerms DEF CtOf
  <2> QED
    BY <1>6, <2>1, <2>2, <2>3 DEF RightFinished, Frame
<1> DEFINE f == Head(link[conn].up)
           fs == SuiteFs(hello.suite)
           th == IF fs THEN transcript_3(hs.th2, f.body.ct_eph) ELSE hs.th2
           all == IF fs
                  THEN derive_stage2(hs.ss_static,
                                     Decaps(EphKey(conn), f.body.ct_eph), psk,
                                     hello.client_nonce, hs.server_nonce, th)
                  ELSE derive_keys(hs.ss_static, psk, hello.client_nonce,
                                   hs.server_nonce, th)
<1>11. /\ keys' = [cli_confirm |-> all.cli_confirm, c2s |-> all.c2s,
                   transcript |-> th, client_mac |-> f.body.client_mac]
       /\ link' = [link EXCEPT ![c].up = Tail(@)]
       /\ spc' = "confirm" /\ conn' = conn
       /\ UNCHANGED <<verdict, hello, psk, hs>>
  BY <1>0, <1>10 DEF ReadClientFinished, Continue, TakeFrame
<1>12. /\ f.body = FinishedOf(c, s)
       /\ hs.ss_static = GatewaySecretOf(c, s)
       /\ hs.server_nonce = Fresh("server-nonce", c)
       /\ hs.th2 = Th2Of(c, s)
  BY <1>0, <1>4, <1>6 DEF Frame, HsSent, HsDrawn
<1> HIDE DEF f
<1>13. /\ th = TranscriptOf(c, s)
       /\ all.cli_confirm = KeysOf(c, s).cli_confirm
       /\ all.c2s = KeysOf(c, s).c2s
  BY <1>0, <1>4, <1>8, <1>12, KeysMeet
<1> HIDE DEF th, all
<1>14. keys' = [cli_confirm |-> KeysOf(c, s).cli_confirm,
                c2s |-> KeysOf(c, s).c2s, transcript |-> TranscriptOf(c, s),
                client_mac |-> FinishedOf(c, s).client_mac]
  BY <1>11, <1>12, <1>13
<1>15. UNCHANGED <<cliVars, backlog, cut, looked, decapsulated, accepted, delivered>>
  BY DEF ReadClientFinished
<1>16. /\ link'[c].up = Tail(link[c].up) /\ link'[c].down = link[c].down
       /\ link'[c].srv = link[c].srv /\ link'[c].cli = link[c].cli
       /\ \A x \in Conn : x # c => link'[x] = link[x]
  BY <1>2, <1>11, TookFrame
<1>17. HandlesOnly
  BY <1>0, <1>11, <1>15, <1>16 DEF HandlesOnly, RecordSame
<1>18. DeviceSame(c)
  BY ClientIdles
<1>19. accepted[c] = NotAccepted /\ delivered[c] = <<>>
  BY <1>1, <1>3 DEF Handling
<1>20. Queues(c, s)'
  <2>1. Taken(c)' = Taken(c) + 1
    <3>1. Len(delivered'[c]) = 0
      BY <1>15, <1>19, EmptySeq
    <3> QED
      BY <1>2, <1>5, <1>11, <3>1 DEF Taken
  <2>2. Least(c)' = Least(c) /\ Most(c)' = Most(c)
    BY <1>18, MostSame
  <2>3. PathSame(c) /\ Taken(c) \in Nat
    BY <1>5, <1>15 DEF PathSame
  <2> QED
    BY <1>1, <1>2, <1>3, <1>5, <1>15, <1>16, <2>1, <2>2, <2>3, QueueTaken DEF ConnInv
<1>21. GatewaySide(c, s)'
  <2>1. established'[c] # NotAgreed
    BY <1>7, <1>18 DEF DeviceSame
  <2>2. Handling(c, s)'
    BY <1>1, <1>3, <1>4, <1>11, <1>14, <1>15, <1>19, <2>1 DEF Handling
  <2> QED
    BY <1>0, <1>2, <1>3, <1>11, <1>15, <1>16, <1>18, <2>2
       DEF ConnInv, GatewaySide, DeviceSame, Vetted
<1> QED
  BY <1>0, <1>1, <1>3, <1>11, <1>15, <1>16, <1>17, <1>20, <1>21, GoesOnAgrees

LEMMA DecapsulationFailsAgrees ==
  ASSUME TypeInv, NonceInv, AgreeInv, DecapsulationFails, UNCHANGED cliVars
  PROVE  AgreeInv'
<1>0. PICK c : c = conn
  OBVIOUS
<1>1. spc \notin {"down", "accept"} /\ Leave("openssl")
  BY DEF DecapsulationFails
<1>2. UNCHANGED <<cliVars, backlog, cut, looked, decapsulated, accepted, delivered>>
  BY DEF DecapsulationFails
<1>3. LookedKept(c) /\ TrueOf("openssl", c)
  BY <1>2 DEF LookedKept, TrueOf
<1> QED
  BY <1>0, <1>1, <1>2, <1>3, LeaveAgrees

\* The client's MAC verifies, and what the gateway accepts is what the device
\* has agreed.
LEMMA VerifyClientMacAgrees ==
  ASSUME TypeInv, NonceInv, AgreeInv, VerifyClientMac, UNCHANGED cliVars
  PROVE  AgreeInv'
<1>0. PICK c : c = conn
  OBVIOUS
<1>1. spc = "confirm"
  BY DEF VerifyClientMac
<1>2. c \in Conn /\ link[c].srv = "open" /\ conn = c
  BY <1>0, <1>1, Handled
<1>3. PICK s \in Suite : ConnInv(c, s) /\ Handling(c, s)
  BY <1>0, <1>1, Handled
<1>4. /\ hello = HelloOf(c, s) /\ hs = HsSent(c, s) /\ c \in decapsulated
      /\ accepted[c] = NotAccepted /\ delivered[c] = <<>>
      /\ established[c] # NotAgreed
      /\ keys = [cli_confirm |-> KeysOf(c, s).cli_confirm,
                 c2s |-> KeysOf(c, s).c2s, transcript |-> TranscriptOf(c, s),
                 client_mac |-> FinishedOf(c, s).client_mac]
  BY <1>1, <1>3 DEF Handling
<1>5. hs.server_mac = ServerMacOf(c, s) /\ hs.session_id = Fresh("session-id", c)
  BY <1>4 DEF HsSent, HsDrawn
<1>6. keys.client_mac = Hmac(keys.cli_confirm, <<keys.transcript, hs.server_mac>>)
  BY <1>4, <1>5 DEF FinishedOf
<1>7. established[c] = AgreedOf(c, s)
  BY <1>3, <1>4 DEF ConnInv, DeviceSide
<1>8. HelloOf(c, s).suite = s
  BY HelloFields
<1>9. /\ inbound' = [key |-> KeysOf(c, s).c2s, session_id |-> Fresh("session-id", c),
                     last |-> 0 - 1]
      /\ accepted' = [accepted EXCEPT ![c] = AgreedOf(c, s)]
      /\ spc' = "data" /\ conn' = conn
      /\ UNCHANGED <<link, verdict, hello, psk, hs, keys>>
  BY <1>0, <1>4, <1>5, <1>6, <1>8 DEF VerifyClientMac, Continue, AgreedOf
<1>10. UNCHANGED <<cliVars, backlog, cut, looked, decapsulated, delivered>>
  BY DEF VerifyClientMac
<1>11. /\ accepted'[c] = AgreedOf(c, s) /\ DOMAIN accepted' = DOMAIN accepted
       /\ \A x \in Conn : x # c => accepted'[x] = accepted[x]
  BY <1>2, <1>9 DEF AgreeInv, Domains
<1>12. HandlesOnly
  BY <1>0, <1>9, <1>10, <1>11 DEF HandlesOnly, RecordSame
<1>13. DeviceSame(c)
  BY ClientIdles
<1>14. Len(delivered[c]) = 0
  BY <1>4, EmptySeq
<1>15. Queues(c, s)'
  <2>1. Taken(c) = 2 /\ Taken(c)' = 2
    <3>1. Taken(c) = 2 + Len(delivered[c]) /\ Taken(c)' = 2 + Len(delivered'[c])
      BY <1>1, <1>2, <1>9 DEF Taken
    <3> QED
      BY <1>10, <1>14, <3>1
  <2>2. Least(c)' = Least(c) /\ Most(c)' = Most(c)
    BY <1>13, MostSame
  <2> QED
    BY <1>3, <1>9, <1>10, <2>1, <2>2 DEF ConnInv, Queues, ReachesServer
<1>16. GatewaySide(c, s)'
  <2>1. accepted'[c] # NotAccepted /\ accepted'[c] = established'[c]
        /\ established'[c] # NotAgreed
    <3>1. AgreedOf(c, s) # NotAccepted
      BY <1>4, <1>7 DEF NotAccepted, NotAgreed
    <3> QED
      BY <1>4, <1>7, <1>11, <1>13, <3>1 DEF DeviceSame
  <2>2. inbound' = [key |-> KeysOf(c, s).c2s, session_id |-> Fresh("session-id", c),
                    last |-> Len(delivered'[c]) - 1]
    BY <1>9, <1>10, <1>14
  <2>3. Handling(c, s)'
    BY <1>3, <1>4, <1>9, <1>10, <2>1, <2>2 DEF ConnInv, GatewaySide, Handling
  <2> QED
    BY <1>0, <1>2, <1>3, <1>4, <1>9, <1>10, <1>13, <2>1, <2>3
       DEF ConnInv, GatewaySide, DeviceSame, Vetted
<1> QED
  BY <1>0, <1>1, <1>3, <1>9, <1>10, <1>12, <1>15, <1>16, GoesOnAgrees

\* In a session the next frame is the next record, until the last one.
LEMMA NextFrame ==
  ASSUME TypeInv, AgreeInv, spc = "data", NEW c, c = conn, NEW s \in Suite,
         ConnInv(c, s), Handling(c, s), link[c].up # <<>>
  PROVE  \/ /\ Head(link[c].up) = Frame("Data", RecordOf(c, s, Len(delivered[c])))
            /\ Len(delivered[c]) < Len(sent[c])
         \/ /\ Head(link[c].up) = Frame("Close", NoTerm)
            /\ ~Active(c) /\ delivered[c] = sent[c]
<1>1. c \in Conn
  BY Handled
<1>2. Taken(c) = 2 + Len(delivered[c]) /\ Len(delivered[c]) \in Nat
  BY <1>1, LinkFacts DEF Taken
<1>3. established[c] # NotAgreed
  BY DEF ConnInv, GatewaySide, Handling
<1>4. /\ Head(link[c].up) = FrameAt(c, s, 2 + Len(delivered[c]) + 1)
      /\ 2 + Len(delivered[c]) + 1 <= Most(c)
  BY <1>1, <1>2, Counts, HeadIsNext DEF ConnInv
<1>5. /\ Len(sent[c]) \in Nat /\ RecordCount \in Nat
      /\ Len(sent[c]) <= RecordCount /\ Len(delivered[c]) <= Len(sent[c])
  BY <1>1, LinkFacts, ClientAssumption DEF ConnInv, DeviceSide, GatewaySide
<1>6. CASE Active(c) \/ Len(sent[c]) # RecordCount
  <2>1. Most(c) = 2 + Len(sent[c]) + 0
    BY <1>3, <1>6 DEF Most
  <2>2. Len(delivered[c]) < Len(sent[c])
    BY <1>2, <1>4, <1>5, <2>1
  <2>3. Len(delivered[c]) < RecordCount
    BY <1>2, <1>5, <2>2
  <2> QED
    BY <1>2, <1>4, <2>2, <2>3, Frames
<1>7. CASE ~(Active(c) \/ Len(sent[c]) # RecordCount)
  <2>1. CASE Len(delivered[c]) < RecordCount
    BY <1>2, <1>4, <1>7, <2>1, Frames
  <2>2. CASE ~(Len(delivered[c]) < RecordCount)
    <3>1. Head(link[c].up) = Frame("Close", NoTerm)
      BY <1>2, <1>4, <2>2, Frames
    <3>2. Len(sent[c]) <= Len(delivered[c])
      BY <1>2, <1>5, <1>7, <2>2
    <3> QED
      BY <1>1, <1>7, <3>1, <3>2, DeliveredAll
  <2> QED
    BY <2>1, <2>2
<1> QED
  BY <1>6, <1>7

LEMMA ReadRecordAgrees ==
  ASSUME TypeInv, NonceInv, AgreeInv, ReadRecord, UNCHANGED cliVars
  PROVE  AgreeInv'
<1>0. PICK c : c = conn
  OBVIOUS
<1>1. spc = "data" /\ link[c].up # <<>>
  BY <1>0 DEF ReadRecord
<1>2. c \in Conn /\ link[c].srv = "open" /\ conn = c
  BY <1>0, <1>1, Handled
<1>3. PICK s \in Suite : ConnInv(c, s) /\ Handling(c, s)
  BY <1>0, <1>1, Handled
<1>4. UNCHANGED <<cliVars, backlog, cut, looked, decapsulated, accepted>>
  BY DEF ReadRecord
<1>5. CASE /\ Head(link[c].up) = Frame("Close", NoTerm)
           /\ ~Active(c) /\ delivered[c] = sent[c]
  <2>1. Head(link[c].up).type = "Close"
    BY <1>5 DEF Frame
  <2>2. Leave("closed") /\ UNCHANGED delivered
    BY <1>0, <2>1 DEF ReadRecord
  <2>3. LookedKept(c) /\ TrueOf("closed", c)
    BY <1>4, <1>5 DEF LookedKept, TrueOf
  <2> QED
    BY <1>0, <1>1, <1>4, <2>2, <2>3, LeaveAgrees
<1>6. CASE /\ Head(link[c].up) = Frame("Data", RecordOf(c, s, Len(delivered[c])))
           /\ Len(delivered[c]) < Len(sent[c])
  <2>0. PICK r \in Nat : r = Len(delivered[c])
    BY <1>2, LinkFacts
  <2>1. /\ Head(link[c].up).type = "Data"
        /\ Head(link[c].up).body = RecordOf(c, s, r)
    BY <1>6, <2>0 DEF Frame
  <2>2. RecordOf(c, s, r).seq = r /\ RecordOf(c, s, r).box.plain = r
    BY DEF RecordOf, Seal
  <2>3. inbound = [key |-> KeysOf(c, s).c2s, session_id |-> Fresh("session-id", c),
                   last |-> r - 1]
    BY <1>1, <1>3, <2>0 DEF Handling
  <2>4. OpensRecord(Head(link[c].up).body)
    <3>1. /\ inbound.key = KeysOf(c, s).c2s
          /\ inbound.session_id = Fresh("session-id", c)
          /\ inbound.last = r - 1
      BY <2>3
    <3>2. r > inbound.last
      <4>1. r > r - 1
        OBVIOUS
      <4> QED
        BY <3>1, <4>1
    <3>3. Opens(RecordOf(c, s, r).box, inbound.key, r, <<inbound.session_id, r>>)
      BY <3>1 DEF RecordOf, Opens, Seal
    <3> QED
      BY <2>1, <2>2, <3>2, <3>3 DEF OpensRecord
  <2>5. /\ delivered' = [delivered EXCEPT ![c] = Append(@, r)]
        /\ inbound' = [inbound EXCEPT !.last = r]
        /\ link' = [link EXCEPT ![c].up = Tail(@)]
        /\ spc' = "data" /\ conn' = conn
        /\ UNCHANGED <<verdict, hello, psk, hs, keys>>
    BY <1>0, <2>1, <2>2, <2>4 DEF ReadRecord, Continue, TakeFrame
  <2>6. /\ Len(delivered'[c]) = r + 1
        /\ \A i \in 1 .. r : delivered'[c][i] = delivered[c][i]
        /\ delivered'[c][r + 1] = r
        /\ \A x \in Conn : x # c => delivered'[x] = delivered[x]
    <3>1. delivered \in [Conn -> Seq(Nat)]
      BY DEF TypeInv, EndsTypeOK, ServerTypeOK
    <3>2. delivered[c] \in Seq(Nat) /\ delivered'[c] = Append(delivered[c], r)
          /\ \A x \in Conn : x # c => delivered'[x] = delivered[x]
      BY <1>2, <2>5, <3>1
    <3> QED
      BY <2>0, <3>2, AppendProperties
  <2>7. /\ link'[c].up = Tail(link[c].up) /\ link'[c].down = link[c].down
        /\ link'[c].srv = link[c].srv /\ link'[c].cli = link[c].cli
        /\ \A x \in Conn : x # c => link'[x] = link[x]
    BY <1>2, <2>5, TookFrame
  <2>8. HandlesOnly
    BY <1>0, <1>4, <2>5, <2>6, <2>7 DEF HandlesOnly, RecordSame
  <2>9. DeviceSame(c)
    BY ClientIdles
  <2>10. Queues(c, s)'
    <3>1. Taken(c)' = Taken(c) + 1
      <4>1. Taken(c) = 2 + r /\ Taken(c)' = 2 + (r + 1)
        BY <1>1, <1>2, <2>0, <2>5, <2>6 DEF Taken
      <4> QED
        BY <4>1
    <3>2. Least(c)' = Least(c) /\ Most(c)' = Most(c)
      BY <2>9, MostSame
    <3>3. PathSame(c)
      BY <1>4 DEF PathSame
    <3>4. Least(c) \in Nat /\ Most(c) \in Nat /\ Taken(c) \in Nat
      BY <1>2, Counts
    <3> QED
      BY <1>1, <1>2, <1>3, <1>4, <2>7, <3>1, <3>2, <3>3, <3>4, QueueTaken DEF ConnInv
  <2>11. GatewaySide(c, s)'
    <3>1. inbound' = [key |-> KeysOf(c, s).c2s, session_id |-> Fresh("session-id", c),
                      last |-> Len(delivered'[c]) - 1]
      <4>1. Len(delivered'[c]) - 1 = r
        BY <2>6
      <4> QED
        BY <2>3, <2>5, <4>1
    <3>2. Handling(c, s)'
      BY <1>1, <1>3, <1>4, <2>5, <3>1 DEF Handling
    <3>3. Len(delivered'[c]) <= Len(sent'[c])
      <4>1. Len(sent[c]) \in Nat /\ sent'[c] = sent[c]
        BY <1>2, <2>9, LinkFacts DEF DeviceSame
      <4> QED
        BY <1>6, <2>0, <2>6, <4>1
    <3>4. \A i \in 1 .. Len(delivered'[c]) : delivered'[c][i] = i - 1
      <4> SUFFICES ASSUME NEW i \in 1 .. Len(delivered'[c])
                   PROVE  delivered'[c][i] = i - 1
        OBVIOUS
      <4>1. CASE i = r + 1
        BY <2>6, <4>1
      <4>2. CASE i # r + 1
        <5>1. i \in 1 .. r
          BY <2>6, <4>2
        <5>2. delivered[c][i] = i - 1
          BY <1>3, <2>0, <5>1 DEF ConnInv, GatewaySide
        <5> QED
          BY <2>6, <5>1, <5>2
      <4> QED
        BY <4>1, <4>2
    <3>5. accepted[c] # NotAccepted
      BY <1>1, <1>3 DEF Handling
    <3> QED
      BY <1>0, <1>2, <1>3, <1>4, <2>5, <2>7, <2>9, <3>2, <3>3, <3>4, <3>5
         DEF ConnInv, GatewaySide, DeviceSame, Vetted
  <2> QED
    BY <1>0, <1>1, <1>3, <1>4, <2>5, <2>7, <2>8, <2>10, <2>11, GoesOnAgrees
<1> QED
  BY <1>0, <1>1, <1>3, <1>5, <1>6, NextFrame

LEMMA HandleStepAgrees ==
  ASSUME TypeInv, NonceInv, AgreeInv, HandleStep, UNCHANGED cliVars
  PROVE  AgreeInv'
<1>1. CASE ReadClientHello
  BY <1>1, ReadClientHelloAgrees
<1>2. CASE ReadEnds
  BY <1>2, ReadEndsAgrees
<1>3. CASE Authenticate
  BY <1>3, AuthenticateAgrees
<1>4. CASE DecapsulateStatic
  BY <1>4, DecapsulateStaticAgrees
<1>5. CASE SendServerHello
  BY <1>5, SendServerHelloAgrees
<1>6. CASE ReadClientFinished
  BY <1>6, ReadClientFinishedAgrees
<1>7. CASE DecapsulationFails
  BY <1>7, DecapsulationFailsAgrees
<1>8. CASE VerifyClientMac
  BY <1>8, VerifyClientMacAgrees
<1>9. CASE ReadRecord
  BY <1>9, ReadRecordAgrees
<1> QED
  BY <1>1, <1>2, <1>3, <1>4, <1>5, <1>6, <1>7, <1>8, <1>9 DEF HandleStep

\* The process ends: every connection it had is closed, and says so.
LEMMA ProcessEndsAgrees ==
  ASSUME TypeInv, AgreeInv, ProcessEnds("killed"), UNCHANGED cliVars
  PROVE  AgreeInv'
<1>1. /\ conn' = NoConn /\ backlog' = <<>>
      /\ UNCHANGED <<cut, looked, decapsulated, accepted, delivered>>
  BY DEF ProcessEnds
<1>2. ASSUME NEW c \in Conn
      PROVE  /\ link'[c].cli = link[c].cli /\ link'[c].down = link[c].down
             /\ link[c].srv \in {"queued", "open"} =>
                  link'[c].srv = "closed" /\ link'[c].up = <<>>
             /\ link[c].srv \notin {"queued", "open"} => link'[c] = link[c]
  <2>1. link'[c] = IF link[c].srv \in {"queued", "open"}
                   THEN [link[c] EXCEPT !.srv = "closed", !.up = <<>>]
                   ELSE link[c]
    BY <1>2 DEF ProcessEnds
  <2> QED
    BY <1>2, <2>1, LinkFacts
<1>3. ASSUME NEW c \in Conn
      PROVE  verdict'[c] = verdict[c] \/ verdict'[c] = "killed"
  BY <1>3 DEF ProcessEnds, TypeInv, EndsTypeOK, ServerTypeOK
<1>4. ASSUME NEW c \in Conn, c # conn
      PROVE  verdict'[c] = verdict[c]
  BY <1>4 DEF ProcessEnds, TypeInv, EndsTypeOK, ServerTypeOK
<1>5. ASSUME NEW c \in Conn
      PROVE  \E s \in Suite : ConnInv(c, s)'
  <2>1. PICK s \in Suite : ConnInv(c, s)
    BY <1>5 DEF AgreeInv
  <2>2. DeviceSame(c)
    BY ClientIdles
  <2>3. conn' # c
    BY <1>1, <1>5, ConnIsNotNone
  <2>4. CASE link[c].srv \in {"queued", "open"}
    <3>1. Outcome(c)'
      <4>1. CASE verdict'[c] = verdict[c]
        BY <1>1, <2>1, <2>2, <4>1 DEF ConnInv, Outcome, DeviceSame
      <4>2. CASE verdict'[c] = "killed"
        BY <4>2 DEF Outcome
      <4> QED
        BY <1>3, <1>5, <4>1, <4>2
    <3>2. ConnInv(c, s)'
      BY <1>1, <1>2, <1>5, <2>1, <2>2, <2>3, <2>4, <3>1, Released
    <3> QED
      BY <3>2
  <2>5. CASE link[c].srv \notin {"queued", "open"}
    <3>1. conn # c
      BY <2>1, <2>5 DEF ConnInv, GatewaySide
    <3>2. GatewaySame(c)
      BY <1>1, <1>4, <1>5, <2>3, <3>1 DEF GatewaySame, RecordSame
    <3>3. LinkSame(c)
      BY <1>1, <1>2, <1>5, <2>5 DEF LinkSame, PathSame
    <3>4. ConnInv(c, s)'
      BY <2>1, <2>2, <3>2, <3>3, Untouched
    <3> QED
      BY <3>4
  <2> QED
    BY <2>4, <2>5
<1>6. ASSUME NEW c \in Conn, c[2] > opened'[owner(c)]
      PROVE  Unopened(c)'
  <2>1. Unopened(c)
    BY <1>6 DEF AgreeInv, cliVars
  <2>2. link'[c] = link[c]
    BY <1>2, <1>6, <2>1 DEF Unopened
  <2> QED
    BY <2>1, <2>2 DEF Unopened
<1>7. BacklogInv'
  BY <1>1, EmptySeq DEF BacklogInv
<1>8. EncapsulatesToTheServer' /\ \A x \in refused' : Pinned[owner(x)] # ServerKey
  BY <1>1 DEF AgreeInv, EncapsulatesToTheServer, cliVars, clientHistory
<1>9. Domains'
  BY <1>1 DEF AgreeInv, Domains, cliVars, runLocals, statics
<1> QED
  BY <1>5, <1>6, <1>7, <1>8, <1>9 DEF AgreeInv

\* Neither a server that starts nor the table's editor touches a connection.
LEMMA NothingTouched ==
  ASSUME AgreeInv, UNCHANGED cliVars, UNCHANGED <<link, backlog, cut>>,
         \A c \in Conn : GatewaySame(c),
         UNCHANGED <<looked, decapsulated, accepted>>
  PROVE  AgreeInv'
<1>1. ASSUME NEW c \in Conn
      PROVE  \E s \in Suite : ConnInv(c, s)'
  <2>1. PICK s \in Suite : ConnInv(c, s)
    BY <1>1 DEF AgreeInv
  <2>2. DeviceSame(c) /\ LinkSame(c) /\ GatewaySame(c)
    BY <1>1, ClientIdles DEF LinkSame, PathSame
  <2> QED
    BY <2>1, <2>2, Untouched
<1>2. \A c \in Conn : c[2] > opened'[owner(c)] => Unopened(c)'
  BY DEF AgreeInv, Unopened, cliVars
<1>3. BacklogInv'
  BY DEF AgreeInv, BacklogInv
<1>4. EncapsulatesToTheServer' /\ \A x \in refused' : Pinned[owner(x)] # ServerKey
  BY DEF AgreeInv, EncapsulatesToTheServer, cliVars, clientHistory
<1>5. Domains'
  BY DEF AgreeInv, Domains, cliVars, runLocals, statics
<1> QED
  BY <1>1, <1>2, <1>3, <1>4, <1>5 DEF AgreeInv

LEMMA RestartAgrees ==
  ASSUME TypeInv, AgreeInv, Restart, UNCHANGED cliVars
  PROVE  AgreeInv'
<1>1. conn = NoConn
  BY DEF Restart, TypeInv, EndsTypeOK, ServerTypeOK
<1>2. \A c \in Conn : GatewaySame(c)
  BY <1>1, ConnIsNotNone DEF Restart, serverHistory, GatewaySame, RecordSame
<1> QED
  BY <1>2, NothingTouched DEF Restart, serverHistory

LEMMA RegisterAgrees ==
  ASSUME AgreeInv, NEW d \in Device, Register(d), UNCHANGED cliVars
  PROVE  AgreeInv'
<1>1. \A c \in Conn : GatewaySame(c)
  BY DEF Register, locals, serverHistory, GatewaySame, RecordSame
<1> QED
  BY <1>1, NothingTouched DEF Register, netVars, serverHistory

\* A lost path shortens both queues; what has arrived keeps its place.
LEMMA PathLostAgrees ==
  ASSUME TypeInv, AgreeInv, NEW c \in Conn, Cut(c), UNCHANGED <<cliVars, srvVars>>
  PROVE  AgreeInv'
<1>1. PICK i \in 0 .. Len(link[c].up), j \in 0 .. Len(link[c].down) :
        link' = [link EXCEPT ![c].up = SubSeq(@, 1, i), ![c].down = SubSeq(@, 1, j)]
  BY DEF Cut
<1>2. i \in Nat /\ j \in Nat /\ i <= Len(link[c].up) /\ j <= Len(link[c].down)
  BY <1>1, LinkFacts
<1>3. /\ link'[c].up = SubSeq(link[c].up, 1, i)
      /\ link'[c].down = SubSeq(link[c].down, 1, j)
      /\ link'[c].srv = link[c].srv /\ link'[c].cli = link[c].cli
      /\ \A x \in Conn : x # c => link'[x] = link[x]
  BY <1>1, LinkFacts
<1>4. UNCHANGED backlog /\ cut' = cut \cup {c}
  BY DEF Cut
<1>5. PICK s \in Suite : ConnInv(c, s)
  BY DEF AgreeInv
<1>6. \A x \in Conn : DeviceSame(x) /\ GatewaySame(x)
  BY ClientIdles, ServerIdles
<1>7. PICK S : link[c].up \in Seq(S) /\ link[c].down \in Seq(S)
  BY LinkFacts
<1>8. /\ Len(link'[c].up) = i
      /\ \A k \in 1 .. i : link'[c].up[k] = link[c].up[k]
  <2>1. \A k \in 1 .. i : link[c].up[k] \in S
    BY <1>2, <1>7, ElementOfSeq
  <2> QED
    BY <1>2, <1>3, <2>1, SubSeqProperties
<1>9. /\ Len(link'[c].down) = j
      /\ \A k \in 1 .. j : link'[c].down[k] = link[c].down[k]
  <2>1. \A k \in 1 .. j : link[c].down[k] \in S
    BY <1>2, <1>7, ElementOfSeq
  <2> QED
    BY <1>2, <1>3, <2>1, SubSeqProperties
<1>10. Queues(c, s)'
  <2>1. Taken(c)' = Taken(c) /\ Least(c)' = Least(c) /\ Most(c)' = Most(c)
    BY <1>6, TakenSame, MostSame
  <2>2. Taken(c) + i <= Most(c)
    <3>1. Taken(c) + Len(link[c].up) <= Most(c)
      BY <1>5 DEF ConnInv, Queues
    <3> QED
      BY <1>2, <3>1, LinkFacts, Counts
  <2>3. ~ReachesServer(c)'
    BY <1>4 DEF ReachesServer
  <2>4. link'[c].srv \in {"none", "closed"} => link'[c].up = <<>>
    <3>1. link[c].srv \in {"none", "closed"} => Len(link[c].up) = 0
      BY <1>5, EmptySeq DEF ConnInv, Queues
    <3>2. i = 0 => link'[c].up = <<>>
      BY <1>3, SubSeqEmpty
    <3> QED
      BY <1>2, <1>3, <3>1, <3>2
  <2>5. \A k \in 1 .. i : link'[c].up[k] = FrameAt(c, s, Taken(c) + k)
    <3>1. \A k \in 1 .. i : k \in 1 .. Len(link[c].up)
      BY <1>2, LinkFacts
    <3> QED
      BY <1>5, <1>8, <3>1 DEF ConnInv, Queues
  <2>6. \A k \in 1 .. j : link'[c].down[k] = Frame("ServerHello", ServerHelloOf(c, s))
    <3>1. \A k \in 1 .. j : k \in 1 .. Len(link[c].down)
      BY <1>2, LinkFacts
    <3> QED
      BY <1>5, <1>9, <3>1 DEF ConnInv, Queues
  <2>7. link'[c].down # <<>> => c \in decapsulated'
    <3>1. link[c].down = <<>> => j = 0
      BY <1>2, EmptySeq
    <3>2. j = 0 => link'[c].down = <<>>
      BY <1>3, SubSeqEmpty
    <3>3. link[c].down # <<>> => c \in decapsulated
      BY <1>5 DEF ConnInv, Queues
    <3> QED
      BY <3>1, <3>2, <3>3 DEF srvVars, serverHistory
  <2> QED
    BY <1>8, <1>9, <2>1, <2>2, <2>3, <2>4, <2>5, <2>6, <2>7 DEF Queues
<1>11. ConnInv(c, s)'
  BY <1>3, <1>5, <1>6, <1>10, SidesKept DEF ConnInv
<1>12. ASSUME NEW x \in Conn, x # c
       PROVE  \E t \in Suite : ConnInv(x, t)'
  <2>1. PICK t \in Suite : ConnInv(x, t)
    BY DEF AgreeInv
  <2>2. LinkSame(x)
    BY <1>3, <1>4, <1>12 DEF LinkSame, PathSame
  <2> QED
    BY <1>6, <2>1, <2>2, Untouched
<1>13. ASSUME NEW x \in Conn, x[2] > opened'[owner(x)]
       PROVE  Unopened(x)'
  <2>1. Unopened(x)
    BY <1>13 DEF AgreeInv, cliVars
  <2> QED
    BY <1>3, <2>1 DEF Unopened
<1>14. BacklogInv'
  <2>1. \A k \in 1 .. Len(backlog) : backlog[k] \in Conn
    BY ElementOfSeq DEF TypeInv, EndsTypeOK, NetTypeOK
  <2>2. \A x \in Conn : link'[x].srv = link[x].srv
    BY <1>3
  <2> QED
    BY <1>4, <2>1, <2>2 DEF AgreeInv, BacklogInv
<1>15. EncapsulatesToTheServer' /\ \A x \in refused' : Pinned[owner(x)] # ServerKey
  BY DEF AgreeInv, EncapsulatesToTheServer, cliVars, clientHistory, srvVars,
         serverHistory
<1>16. Domains'
  BY DEF AgreeInv, Domains, cliVars, runLocals, statics, srvVars, serverHistory
<1> QED
  BY <1>5, <1>11, <1>12, <1>13, <1>14, <1>15, <1>16 DEF AgreeInv

LEMMA InitAgrees == Init => AgreeInv
<1> SUFFICES ASSUME Init PROVE AgreeInv
  OBVIOUS
<1> USE DEF Init, NetInit, ClientInit, ServerInit
<1>1. ASSUME NEW c \in Conn
      PROVE  ConnInv(c, "MLKEM768")
  <2> DEFINE s == "MLKEM768"
  <2>1. /\ link[c] = [up |-> <<>>, down |-> <<>>, cli |-> "none", srv |-> "none"]
        /\ established[c] = NotAgreed /\ sent[c] = <<>>
        /\ verdict[c] = "none" /\ accepted[c] = NotAccepted
        /\ delivered[c] = <<>> /\ c \notin decapsulated
    BY <1>1
  <2>2. conn # c
    BY <1>1, ConnIsNotNone
  <2>3. ~Active(c)
    BY <1>1, ConnIsPair DEF Active, Busy
  <2>4. Len(<<>>) = 0 /\ RecordCount \in Nat
    BY EmptySeq, ClientAssumption
  <2>5. Taken(c) = 0 /\ Least(c) = 0 /\ Most(c) = 1
    BY <2>1, <2>2, <2>3 DEF Taken, Least, Most
  <2>6. DeviceSide(c, s)
    BY <2>1, <2>3, <2>4 DEF DeviceSide
  <2>7. Queues(c, s)
    BY <2>1, <2>4, <2>5 DEF Queues
  <2>8. GatewaySide(c, s)
    BY <2>1, <2>2, <2>4 DEF GatewaySide, Untried
  <2>9. Outcome(c)
    BY <2>1 DEF Outcome
  <2> QED
    BY <2>6, <2>7, <2>8, <2>9 DEF ConnInv
<1>2. \A c \in Conn : Unopened(c)
  BY DEF Unopened
<1>3. BacklogInv
  BY EmptySeq DEF BacklogInv
<1>4. EncapsulatesToTheServer /\ \A c \in refused : Pinned[owner(c)] # ServerKey
  BY DEF EncapsulatesToTheServer
<1>5. Domains
  BY DEF Domains
<1>6. "MLKEM768" \in Suite
  BY DEF Suite
<1> QED
  BY <1>1, <1>2, <1>3, <1>4, <1>5, <1>6 DEF AgreeInv

LEMMA NextAgrees ==
  ASSUME TypeInv, NonceInv, AgreeInv, [Next]_vars
  PROVE  AgreeInv'
<1>1. CASE UNCHANGED vars
  <2>1. \A c \in Conn : GatewaySame(c)
    BY <1>1, ServerIdles DEF vars
  <2> QED
    BY <1>1, <2>1, NothingTouched DEF vars, netVars, srvVars, serverHistory
<1>2. ASSUME NEW d \in Device, DeviceStep(d)
      PROVE  AgreeInv'
  BY <1>2, ClientStepAgrees DEF DeviceStep
<1>3. ASSUME NEW d \in Device, DeviceReset(d)
      PROVE  AgreeInv'
  BY <1>3, ResetAgrees DEF DeviceReset
<1>4. ASSUME NEW d \in Device, Provision(d)
      PROVE  AgreeInv'
  BY <1>4, RegisterAgrees DEF Provision
<1>5. ASSUME NEW c \in Conn, PathLost(c)
      PROVE  AgreeInv'
  BY <1>5, PathLostAgrees DEF PathLost
<1>6. CASE GatewayStep
  BY <1>6, AcceptAgrees, HandleStepAgrees DEF GatewayStep
<1>7. CASE GatewayFault
  <2>1. ProcessEnds("killed") /\ UNCHANGED cliVars
    BY <1>7 DEF GatewayFault, UncaughtException, Kill
  <2> QED
    BY <2>1, ProcessEndsAgrees
<1>8. CASE GatewayRestart
  BY <1>8, RestartAgrees DEF GatewayRestart
<1> QED
  BY <1>1, <1>2, <1>3, <1>4, <1>5, <1>6, <1>7, <1>8 DEF Next

LEMMA InvariantAgrees == Spec => [](TypeInv /\ NonceInv /\ AgreeInv)
<1>1. Init => NonceInv
  BY DEF Init, ClientInit, NonceInv, KeysInv, SessionInv, BoxesInv
<1>2. TypeInv /\ NonceInv /\ [Next]_vars => NonceInv'
  BY NextKeeps
<1>3. TypeInv /\ NonceInv /\ AgreeInv /\ [Next]_vars => AgreeInv'
  BY NextAgrees
<1> QED
  BY <1>1, <1>2, <1>3, InitAgrees, InvariantTypes, PTL DEF Spec

-----------------------------------------------------------------------------
(***************************************************************************)
(* The theorems.                                                           *)
(***************************************************************************)

(***************************************************************************)
(* AgreeOnKeys: a handshake the gateway accepts (pqc_server.py) is the one *)
(* the device completed (pqc_session.c), in either mode, and no other      *)
(* connection has its key.                                                 *)
(***************************************************************************)
THEOREM BothEndsAgree == Spec => []AgreeOnKeys
<1>1. NonceInv /\ AgreeInv => AgreeOnKeys
  <2> SUFFICES ASSUME NonceInv, AgreeInv PROVE AgreeOnKeys
    OBVIOUS
  <2>1. \A c \in Conn : accepted[c] # NotAccepted => accepted[c] = established[c]
    BY DEF AgreeInv, ConnInv, GatewaySide
  <2>2. ASSUME NEW c1 \in Conn, NEW c2 \in Conn, established[c1] # NotAgreed,
               established[c1].c2s = established[c2].c2s
        PROVE  c1 = c2
    <3>1. KeyFor(established[c1].c2s, c1)
      BY <2>2 DEF NonceInv, KeysInv
    <3>2. established[c2] # NotAgreed
      BY <2>2, <3>1, KeyIsATerm DEF NotAgreed
    <3>3. KeyFor(established[c2].c2s, c2)
      BY <2>2, <3>2 DEF NonceInv, KeysInv
    <3> QED
      BY <2>2, <3>1, <3>3, KeyNamesConnection
  <2> QED
    BY <2>1, <2>2 DEF AgreeOnKeys
<1> QED
  BY <1>1, InvariantAgrees, PTL

\* Two sequences that count up from zero: the shorter is a prefix.
LEMMA CountingPrefix ==
  ASSUME NEW s \in Seq(Nat), NEW t \in Seq(Nat), Len(s) <= Len(t),
         \A i \in 1 .. Len(s) : s[i] = i - 1,
         \A i \in 1 .. Len(t) : t[i] = i - 1
  PROVE  /\ IsPrefix(s, t)
         /\ Len(s) = Len(t) => s = t
<1>1. Len(s) \in Nat /\ Len(t) \in Nat
  BY LenProperties
<1>2. \A i \in 1 .. Len(s) : i \in 1 .. Len(t) /\ s[i] = t[i]
  BY <1>1
<1>3. SubSeq(s, 1, Len(s)) = SubSeq(t, 1, Len(s))
  BY <1>2, SameStart
<1>4. Len(s) = Len(t) => s = t
  BY <1>2, SeqEqual
<1> QED
  BY <1>3, <1>4 DEF IsPrefix

(***************************************************************************)
(* DeliveredInOrder: whatever is lost, cut or restarted, the gateway has   *)
(* delivered the first records its device sent, once each and in order.    *)
(***************************************************************************)
THEOREM RecordsArriveInOrder == Spec => []DeliveredInOrder
<1>1. TypeInv /\ AgreeInv => DeliveredInOrder
  <2> SUFFICES ASSUME TypeInv, AgreeInv, NEW c \in Conn
               PROVE  /\ IsPrefix(delivered[c], sent[c])
                      /\ delivered[c] # <<>> => accepted[c] # NotAccepted
    BY DEF DeliveredInOrder
  <2>1. delivered[c] \in Seq(Nat) /\ sent[c] \in Seq(Nat)
    BY DEF TypeInv, EndsTypeOK, ClientTypeOK, ServerTypeOK
  <2>2. PICK s \in Suite : ConnInv(c, s)
    BY DEF AgreeInv
  <2>3. IsPrefix(delivered[c], sent[c])
    BY <2>1, <2>2, CountingPrefix DEF ConnInv, DeviceSide, GatewaySide
  <2> QED
    BY <2>2, <2>3 DEF ConnInv, GatewaySide
<1> QED
  BY <1>1, InvariantAgrees, PTL

(***************************************************************************)
(* ClosedIsComplete: "session closed" in the server's log means that every *)
(* record the device sent has been delivered, although handle_connection   *)
(* takes the end of the stream for a Close.                                *)
(***************************************************************************)
THEOREM ClosedSessionsAreComplete == Spec => []ClosedIsComplete
<1>1. AgreeInv => ClosedIsComplete
  BY DEF AgreeInv, ConnInv, Outcome, ClosedIsComplete
<1> QED
  BY <1>1, InvariantAgrees, PTL

(***************************************************************************)
(* OnlyMismatchRefused: a check of either program that fails names a       *)
(* difference in provisioning, and the checks behind the PSK never fail.   *)
(***************************************************************************)
THEOREM RefusalsNameAMismatch == Spec => []OnlyMismatchRefused
<1>1. AgreeInv => OnlyMismatchRefused
  BY DEF AgreeInv, ConnInv, Outcome, OnlyMismatchRefused
<1> QED
  BY <1>1, InvariantAgrees, PTL

(***************************************************************************)
(* NoWorkForStrangers: openssl decapsulates only for a device whose key id *)
(* and PSK MAC handle_connection has checked.                              *)
(***************************************************************************)
THEOREM StrangersGetNoWork == Spec => []NoWorkForStrangers
<1>1. TypeInv /\ AgreeInv => NoWorkForStrangers
  <2>1. ASSUME TypeInv, AgreeInv PROVE NoWorkForStrangers
    BY <2>1 DEF AgreeInv, ConnInv, GatewaySide, Vetted, NoWorkForStrangers, TypeInv,
                EndsTypeOK, ServerTypeOK
  <2> QED
    BY <2>1
<1> QED
  BY <1>1, InvariantAgrees, PTL

(***************************************************************************)
(* EncapsulatesToTheServer: the device encapsulates only to the ephemeral  *)
(* key that the pinned server made for this connection.                    *)
(***************************************************************************)
THEOREM EphemeralKeyIsTheServers == Spec => []EncapsulatesToTheServer
<1>1. AgreeInv => EncapsulatesToTheServer
  BY DEF AgreeInv
<1> QED
  BY <1>1, InvariantAgrees, PTL

-----------------------------------------------------------------------------
(***************************************************************************)
(* The refinement: every step of the two programs is a step of one record  *)
(* channel, or none.                                                       *)
(***************************************************************************)
ChannelStep == [Channels!Next]_(Channels!vars)

\* The end that has agreed holds a secret, and no two channels have the same.
LEMMA AgreedHoldsSecret ==
  ASSUME NonceInv, NEW c \in Conn, established[c] # NotAgreed
  PROVE  agreedSecret(established[c]) # agreedSecret(NotAgreed)
<1>1. KeyFor(established[c].c2s, c)
  BY DEF NonceInv, KeysInv
<1>2. established[c].c2s # NoTerm
  BY <1>1, KeyIsATerm
<1> QED
  BY <1>2 DEF agreedSecret, NotAgreed

LEMMA ChannelIdles ==
  ASSUME UNCHANGED <<established, accepted, sent, delivered>>,
         \A c \in Conn : verdict'[c] = "none" <=> verdict[c] = "none"
  PROVE  ChannelStep
<1>1. UNCHANGED Channels!vars
  BY DEF Channels!vars
<1> QED
  BY <1>1 DEF ChannelStep

\* handle_connection returning is the gateway ending the channel.
LEMMA ChannelEnds ==
  ASSUME TypeInv, NEW c \in Conn, NEW v, v # "none", verdict[c] = "none",
         verdict' = [verdict EXCEPT ![c] = v],
         UNCHANGED <<established, accepted, sent, delivered>>
  PROVE  ChannelStep
<1>1. \A x \in Conn : verdict'[x] = IF x = c THEN v ELSE verdict[x]
  BY DEF TypeInv, EndsTypeOK, ServerTypeOK
<1>2. Channels!End(c)
  BY <1>1 DEF Channels!End
<1> QED
  BY <1>2 DEF ChannelStep, Channels!Next

\* Sending ClientFinished opens the channel.
LEMMA FinishedOpens ==
  ASSUME TypeInv, NonceInv, NEW d \in Device, SendClientFinished(d), UNCHANGED srvVars
  PROVE  ChannelStep
<1>0. PICK c : c = curr(d)
  OBVIOUS
<1>1. cpc[d] = "finish" /\ UNCHANGED <<accepted, sent, delivered, verdict>>
  BY DEF SendClientFinished, srvVars, serverHistory
<1>2. c \in Conn
  BY <1>0, <1>1, CurrIsActive DEF Busy
<1>3. established[c] = NotAgreed /\ s_hello[d].client_nonce = Fresh("client-nonce", c)
  BY <1>0, <1>1 DEF NonceInv, SessionInv
<1>4. PICK k, t, i : /\ KeyFor(k, c)
                     /\ established' = [established EXCEPT ![c] =
                          [suite |-> t, session_id |-> i, c2s |-> k]]
  <2> DEFINE k == ClientKeys(d, s_hello[d], ss[d], Fresh("eph-coins", c), s_frame[d]).c2s
  <2>1. KeyFor(k, c)
    BY <1>3, ClientKeyNonce
  <2>2. established' = [established EXCEPT ![c] =
          [suite |-> s_hello[d].suite, session_id |-> s_frame[d].session_id, c2s |-> k]]
    BY <1>0 DEF SendClientFinished
  <2> QED
    BY <2>1, <2>2
<1>5. /\ established'[c].c2s = k
      /\ \A x \in Conn : x # c => established'[x] = established[x]
  BY <1>2, <1>4 DEF NonceInv, KeysInv
<1>6. \A x \in Conn : x # c => established[x].c2s # k
  <2> SUFFICES ASSUME NEW x \in Conn, x # c, established[x].c2s = k
               PROVE  FALSE
    OBVIOUS
  <2>1. established[x] # NotAgreed
    BY <1>4, KeyIsATerm DEF NotAgreed
  <2>2. KeyFor(k, x)
    BY <2>1 DEF NonceInv, KeysInv
  <2> QED
    BY <1>4, <2>2, KeyNamesConnection
<1>7. k # NoTerm
  BY <1>4, KeyIsATerm
<1>8. Channels!Open(c)
  <2>1. agreedSecret(established'[c]).c2s = k
    BY <1>5 DEF agreedSecret
  <2>2. agreedSecret(NotAgreed).c2s = NoTerm
    BY DEF agreedSecret, NotAgreed
  <2>3. \A x \in Conn : agreedSecret(established[x]).c2s = established[x].c2s
    BY DEF agreedSecret
  <2>4. agreedSecret(established'[c]) # agreedSecret(NotAgreed)
    BY <1>7, <2>1, <2>2
  <2>5. \A x \in Conn \ {c} :
          /\ agreedSecret(established'[x]) = agreedSecret(established[x])
          /\ agreedSecret(established'[c]) # agreedSecret(established[x])
    BY <1>5, <1>6, <2>1, <2>3
  <2> QED
    BY <1>1, <1>2, <1>3, <2>4, <2>5 DEF Channels!Open
<1> QED
  BY <1>2, <1>8 DEF ChannelStep, Channels!Next

\* A record written is a record sent on the channel.
LEMMA RecordIsSent ==
  ASSUME TypeInv, NonceInv, NEW d \in Device, SendRecord(d), UNCHANGED srvVars
  PROVE  ChannelStep
<1>0. PICK c : c = curr(d)
  OBVIOUS
<1>1. /\ cpc[d] = "data" /\ n[d] < RecordCount
      /\ sent' = [sent EXCEPT ![c] = Append(@, n[d])]
      /\ UNCHANGED <<established, accepted, delivered, verdict>>
  BY <1>0 DEF SendRecord, srvVars, serverHistory
<1>2. c \in Conn
  BY <1>0, <1>1, CurrIsActive DEF Busy
<1>3. agreedSecret(established[c]) # agreedSecret(NotAgreed)
  BY <1>0, <1>1, <1>2, AgreedHoldsSecret DEF NonceInv, SessionInv
<1>4. n[d] \in 0 .. RecordCount - 1
  BY <1>1, ClientAssumption DEF TypeInv, EndsTypeOK, ClientTypeOK
<1>5. Channels!Send(c)
  BY <1>1, <1>2, <1>3, <1>4 DEF Channels!Send
<1> QED
  BY <1>2, <1>5 DEF ChannelStep, Channels!Next

LEMMA DeviceStepOnChannel ==
  ASSUME TypeInv, NonceInv, NEW d \in Device, ClientStep(d) \/ Reset(d),
         UNCHANGED srvVars
  PROVE  ChannelStep
<1>1. CASE SendClientFinished(d)
  BY <1>1, FinishedOpens
<1>2. CASE SendRecord(d)
  BY <1>2, RecordIsSent
<1>3. CASE ~SendClientFinished(d) /\ ~SendRecord(d)
  <2>1. UNCHANGED <<established, sent>>
    BY <1>3 DEF ClientStep, Connect, ConnectFails, SendClientHello, ReadServerHello,
                ReadFails, VerifyServerMac, SendClose, StepFails, Reset, clientHistory
  <2> QED
    BY <2>1, ChannelIdles DEF srvVars, serverHistory
<1> QED
  BY <1>1, <1>2, <1>3

LEMMA LeavingEnds ==
  ASSUME TypeInv, AgreeInv, spc \notin {"down", "accept"}, NEW v, v # "none", Leave(v),
         UNCHANGED <<cliVars, accepted, delivered>>
  PROVE  ChannelStep
<1>1. conn \in Conn /\ verdict[conn] = "none"
  BY Handled
<1>2. verdict' = [verdict EXCEPT ![conn] = v]
  BY DEF Leave
<1> QED
  BY <1>1, <1>2, ChannelEnds DEF cliVars, clientHistory

\* The client's MAC verified: the gateway joins.
LEMMA MacJoins ==
  ASSUME TypeInv, NonceInv, AgreeInv, VerifyClientMac, UNCHANGED cliVars
  PROVE  ChannelStep
<1>0. PICK c : c = conn
  OBVIOUS
<1>1. spc = "confirm" /\ UNCHANGED <<established, sent, delivered>>
  BY DEF VerifyClientMac, cliVars, clientHistory
<1>2. CASE Leave("client-mac") /\ UNCHANGED accepted
  BY <1>1, <1>2, LeavingEnds
<1>3. CASE ~(Leave("client-mac") /\ UNCHANGED accepted)
  <2>1. /\ accepted' = [accepted EXCEPT ![c] =
             [suite |-> hello.suite, session_id |-> hs.session_id, c2s |-> keys.c2s]]
        /\ UNCHANGED verdict
    BY <1>0, <1>3 DEF VerifyClientMac, Continue
  <2>2. c \in Conn /\ verdict[c] = "none"
    BY <1>0, <1>1, Handled
  <2>3. PICK s \in Suite : ConnInv(c, s) /\ Handling(c, s)
    BY <1>0, <1>1, Handled
  <2>4. /\ established[c] # NotAgreed /\ established[c] = AgreedOf(c, s)
        /\ accepted[c] = NotAccepted
        /\ hs = HsSent(c, s) /\ keys.c2s = KeysOf(c, s).c2s
    BY <1>1, <2>3 DEF ConnInv, DeviceSide, Handling
  <2>5. hs.session_id = Fresh("session-id", c)
    BY <2>4 DEF HsSent, HsDrawn
  <2>6. agreedSecret(accepted'[c]) = agreedSecret(established[c])
    <3>1. /\ accepted'[c].c2s = KeysOf(c, s).c2s
          /\ accepted'[c].session_id = Fresh("session-id", c)
      BY <2>1, <2>2, <2>4, <2>5 DEF AgreeInv, Domains
    <3>2. /\ established[c].c2s = KeysOf(c, s).c2s
          /\ established[c].session_id = Fresh("session-id", c)
      <4>1. /\ AgreedOf(c, s).c2s = KeysOf(c, s).c2s
            /\ AgreedOf(c, s).session_id = Fresh("session-id", c)
        BY DEF AgreedOf
      <4> QED
        BY <2>4, <4>1
    <3> QED
      BY <3>1, <3>2 DEF agreedSecret
  <2>7. \A x \in Conn : x # c => accepted'[x] = accepted[x]
    BY <2>1
  <2>8. agreedSecret(established[c]) # agreedSecret(NotAgreed)
    BY <2>2, <2>4, AgreedHoldsSecret
  <2>9. agreedSecret(accepted[c]) = agreedSecret(NotAgreed)
    BY <2>4 DEF NotAccepted, NotAgreed
  <2>10. Channels!Join(c)
    <3>1. [x \in Conn |-> agreedSecret(accepted'[x])]
            = [[x \in Conn |-> agreedSecret(accepted[x])] EXCEPT ![c] =
                 [x \in Conn |-> agreedSecret(established[x])][c]]
      BY <2>2, <2>6, <2>7
    <3> QED
      BY <1>1, <2>1, <2>2, <2>8, <2>9, <3>1 DEF Channels!Join
  <2> QED
    BY <2>2, <2>10 DEF ChannelStep, Channels!Next
<1> QED
  BY <1>2, <1>3

\* A record opened is the next one sent.
LEMMA RecordIsDelivered ==
  ASSUME TypeInv, NonceInv, AgreeInv, ReadRecord, UNCHANGED cliVars
  PROVE  ChannelStep
<1>0. PICK c : c = conn
  OBVIOUS
<1>1. /\ spc = "data" /\ link[c].up # <<>>
      /\ UNCHANGED <<established, sent, accepted>>
  BY <1>0 DEF ReadRecord, cliVars, clientHistory
<1>2. CASE \E v : v # "none" /\ Leave(v) /\ UNCHANGED delivered
  BY <1>1, <1>2, LeavingEnds
<1>3. CASE ~\E v : v # "none" /\ Leave(v) /\ UNCHANGED delivered
  <2>1. /\ Head(link[c].up).type = "Data"
        /\ delivered' = [delivered EXCEPT ![c] =
                           Append(@, Head(link[c].up).body.box.plain)]
        /\ UNCHANGED verdict
    BY <1>0, <1>3 DEF ReadRecord, Continue
  <2>2. c \in Conn /\ verdict[c] = "none"
    BY <1>0, <1>1, Handled
  <2>3. PICK s \in Suite : ConnInv(c, s) /\ Handling(c, s)
    BY <1>0, <1>1, Handled
  <2>4. PICK r \in Nat : r = Len(delivered[c])
    BY <2>2, LinkFacts
  <2>5. Head(link[c].up) = Frame("Data", RecordOf(c, s, r)) /\ r < Len(sent[c])
    <3>1. ~(Head(link[c].up) = Frame("Close", NoTerm))
      BY <2>1 DEF Frame
    <3> QED
      BY <1>0, <1>1, <2>3, <2>4, <3>1, NextFrame
  <2>6. Head(link[c].up).body.box.plain = r
    <3>1. Head(link[c].up).body = RecordOf(c, s, r)
      BY <2>5 DEF Frame
    <3>2. RecordOf(c, s, r).box.plain = r
      BY DEF RecordOf, Seal
    <3> QED
      BY <3>1, <3>2
  <2>7. sent[c][r + 1] = r
    <3>1. Len(sent[c]) \in Nat
      BY <2>2, LinkFacts
    <3>2. r + 1 \in 1 .. Len(sent[c]) /\ r + 1 - 1 = r
      BY <2>4, <2>5, <3>1
    <3> QED
      BY <2>3, <3>2 DEF ConnInv, DeviceSide
  <2>8. accepted[c] = established[c] /\ established[c] # NotAgreed
    BY <1>1, <2>3 DEF Handling, ConnInv, GatewaySide
  <2>9. agreedSecret(accepted[c]) # agreedSecret(NotAgreed)
    BY <2>2, <2>8, AgreedHoldsSecret
  <2>10. delivered' = [delivered EXCEPT ![c] =
                         Append(@, sent[c][Len(delivered[c]) + 1])]
    BY <2>1, <2>4, <2>6, <2>7
  <2>11. Channels!Deliver(c)
    BY <1>1, <2>1, <2>2, <2>4, <2>5, <2>9, <2>10 DEF Channels!Deliver
  <2> QED
    BY <2>2, <2>11 DEF ChannelStep, Channels!Next
<1> QED
  BY <1>2, <1>3

LEMMA GatewayStepOnChannel ==
  ASSUME TypeInv, NonceInv, AgreeInv, HandleStep, UNCHANGED cliVars
  PROVE  ChannelStep
<1>1. CASE VerifyClientMac
  BY <1>1, MacJoins
<1>2. CASE ReadRecord
  BY <1>2, RecordIsDelivered
<1>3. CASE ~VerifyClientMac /\ ~ReadRecord
  <2>1. spc \notin {"down", "accept"} /\ UNCHANGED <<accepted, delivered>>
    BY <1>3 DEF HandleStep, ReadClientHello, ReadEnds, Authenticate, DecapsulateStatic,
                SendServerHello, ReadClientFinished, DecapsulationFails
  <2>2. UNCHANGED verdict \/ \E v : v # "none" /\ Leave(v)
    BY <1>3 DEF HandleStep, ReadClientHello, ReadEnds, Authenticate, DecapsulateStatic,
                SendServerHello, ReadClientFinished, DecapsulationFails, Continue
  <2>3. CASE UNCHANGED verdict
    BY <2>1, <2>3, ChannelIdles DEF cliVars, clientHistory
  <2> QED
    BY <2>1, <2>2, <2>3, LeavingEnds
<1> QED
  BY <1>1, <1>2, <1>3

\* A process that ends takes the channel it was handling with it.
LEMMA ProcessEndsChannel ==
  ASSUME TypeInv, AgreeInv, ProcessEnds("killed"), UNCHANGED cliVars
  PROVE  ChannelStep
<1>1. UNCHANGED <<established, accepted, sent, delivered>>
  BY DEF ProcessEnds, cliVars, clientHistory
<1>2. CASE conn = NoConn
  BY <1>1, <1>2, ChannelIdles DEF ProcessEnds
<1>3. CASE conn # NoConn
  <2>1. spc \notin {"down", "accept"}
    BY <1>3 DEF TypeInv, EndsTypeOK, ServerTypeOK
  <2>2. conn \in Conn /\ verdict[conn] = "none"
    BY <2>1, Handled
  <2>3. verdict' = [verdict EXCEPT ![conn] = "killed"]
    BY <1>3 DEF ProcessEnds
  <2> QED
    BY <1>1, <2>2, <2>3, ChannelEnds
<1> QED
  BY <1>2, <1>3

LEMMA NextOnChannel ==
  ASSUME TypeInv, NonceInv, AgreeInv, [Next]_vars
  PROVE  ChannelStep
<1>1. CASE UNCHANGED vars
  BY <1>1, ChannelIdles DEF vars, cliVars, clientHistory, srvVars, serverHistory
<1>2. ASSUME NEW d \in Device, DeviceStep(d) \/ DeviceReset(d)
      PROVE  ChannelStep
  BY <1>2, DeviceStepOnChannel DEF DeviceStep, DeviceReset
<1>3. ASSUME NEW d \in Device, Provision(d)
      PROVE  ChannelStep
  BY <1>3, ChannelIdles DEF Provision, Register, serverHistory, cliVars, clientHistory
<1>4. ASSUME NEW c \in Conn, PathLost(c)
      PROVE  ChannelStep
  BY <1>4, ChannelIdles DEF PathLost, srvVars, serverHistory, cliVars, clientHistory
<1>5. CASE GatewayStep
  <2>1. CASE Accept /\ UNCHANGED cliVars
    BY <2>1, ChannelIdles DEF Accept, serverHistory, cliVars, clientHistory
  <2> QED
    BY <1>5, <2>1, GatewayStepOnChannel DEF GatewayStep
<1>6. CASE GatewayFault
  <2>1. ProcessEnds("killed") /\ UNCHANGED cliVars
    BY <1>6 DEF GatewayFault, UncaughtException, Kill
  <2> QED
    BY <2>1, ProcessEndsChannel
<1>7. CASE GatewayRestart
  BY <1>7, ChannelIdles
     DEF GatewayRestart, Restart, serverHistory, cliVars, clientHistory
<1> QED
  BY <1>1, <1>2, <1>3, <1>4, <1>5, <1>6, <1>7 DEF Next

(***************************************************************************)
(* ChannelSpec: what an application sees of PQC-IoT-1 is the record        *)
(* channel of RecordChannel, under a secret per connection, for every      *)
(* fault the model has.                                                    *)
(***************************************************************************)
THEOREM ProtocolImplementsChannels == Spec => ChannelSpec
<1>1. Init => Channels!Init
  <2> SUFFICES ASSUME Init PROVE Channels!Init
    OBVIOUS
  <2>1. \A c \in Conn : /\ agreedSecret(established[c]) = agreedSecret(NotAgreed)
                        /\ agreedSecret(accepted[c]) = agreedSecret(NotAgreed)
                        /\ verdict[c] = "none"
    BY DEF Init, ClientInit, ServerInit, NotAccepted, NotAgreed
  <2>2. sent = [c \in Conn |-> <<>>] /\ delivered = [c \in Conn |-> <<>>]
    BY DEF Init, ClientInit, ServerInit
  <2> QED
    BY <2>1, <2>2 DEF Channels!Init
<1>2. TypeInv /\ NonceInv /\ AgreeInv /\ [Next]_vars => [Channels!Next]_(Channels!vars)
  BY NextOnChannel DEF ChannelStep
<1> QED
  BY <1>1, <1>2, InvariantAgrees, PTL DEF Spec, ChannelSpec, Channels!Spec
=============================================================================
