---------------------------- MODULE ProgramProofs ----------------------------
(***************************************************************************)
(* Theorems about the program, which runs one of the two proxies: about    *)
(* UdpProxy, for any number of clients, servers, ports, sockets and        *)
(* datagrams in flight; about TcpProxy, over what is proved of its server, *)
(* when no peer name comes back while the map has it.                      *)
(***************************************************************************)
EXTENDS Program, TcpServerProofs, SequenceTheorems

-----------------------------------------------------------------------------
(* UdpProxy: the invariant                                                  *)

\* A key has three parts, and no agent is its own client.
KeysApart ==
  \A k \in DOMAIN agents : k = <<k[1], k[2], k[3]>> /\ k[1] # k

\* The requests a datagram was sent for: a client made the first, and the agent of
\* each made the one after it, if it made one.
Chain(of) ==
  /\ \E S : of \in Seq(S)
  /\ \A i \in 1 .. Len(of) :
       /\ Udp!Key(of[i]) \in DOMAIN agents
       /\ i = 1 => of[i].client \in Udp!Client
       /\ i > 1 => of[i].client = Udp!Key(of[i - 1])

Server == (ServerIp \union {Local}) \X (0 .. PortRange - 1)

ToProxy(m) ==
  /\ m.what = "request" /\ m.of = <<>>
  /\ m.src \in Udp!Client /\ m.dst = Udp!FrontAddr

ToServer(m) ==
  /\ m.what = "message" /\ Len(m.of) > 0
  /\ m.src = Udp!Key(Udp!Last(m.of)) /\ m.dst = Udp!Address(Udp!Last(m.of))

ToAgent(m) ==
  /\ m.what = "reply" /\ Len(m.of) > 0
  /\ m.src \in Server /\ m.dst = Udp!Key(Udp!Last(m.of))

ToClient(m) ==
  /\ m.what = "reply" /\ Len(m.of) > 0
  /\ m.src \in DOMAIN agents /\ m.dst = Udp!Last(m.of).client

\* A datagram is on one of the four ways of its last request.
OnItsWay(m) ==
  /\ Chain(m.of)
  /\ ToProxy(m) \/ ToServer(m) \/ ToAgent(m) \/ ToClient(m)

UdpInv ==
  /\ Udp!TypeOK
  /\ KeysApart
  /\ \A m \in net : OnItsWay(m)

-----------------------------------------------------------------------------
(* UdpProxy: lemmas                                                         *)

\* The addresses of clients, servers and the proxy are pairs and keys are triples.
LEMMA PairIsNoTriple ==
  ASSUME NEW a, NEW b, NEW x, NEW y, NEW z
  PROVE  <<a, b>> # <<x, y, z>>
<1>1. DOMAIN <<a, b>> = 1 .. 2 /\ DOMAIN <<x, y, z>> = 1 .. 3
  OBVIOUS
<1>2. 1 .. 2 # 1 .. 3
  OBVIOUS
<1> QED BY <1>1, <1>2

LEMMA AddressIsNoKey ==
  ASSUME NEW r, NEW a, a \in Udp!Client \union Server \union {Udp!FrontAddr, Udp!Address(r)}
  PROVE  /\ \A q : a # Udp!Key(q)
         /\ KeysApart => a \notin DOMAIN agents
<1>1. \E x, y : a = <<x, y>>
  BY DEF Udp!Client, Server, Udp!FrontAddr, Udp!Address
<1>2. ASSUME NEW q PROVE a # Udp!Key(q)
  BY <1>1, PairIsNoTriple DEF Udp!Key
<1>3. ASSUME KeysApart, a \in DOMAIN agents PROVE FALSE
  <2>1. a = <<a[1], a[2], a[3]>>
    BY <1>3 DEF KeysApart
  <2> HIDE DEF KeysApart
  <2> QED BY <1>1, <2>1, PairIsNoTriple
<1> QED BY <1>2, <1>3

\* An agent is the one its key describes.
LEMMA AgentByKey ==
  ASSUME UdpInv, NEW r, Udp!Key(r) \in DOMAIN agents
  PROVE  agents[Udp!Key(r)] = Udp!NewAgent(r)
<1>1. Udp!Key(r)[1] = r.client /\ Udp!Key(r)[2] = r.ip /\ Udp!Key(r)[3] = r.port
  BY DEF Udp!Key
<1>2. agents[Udp!Key(r)] =
        Udp!NewAgent([client |-> r.client, ip |-> r.ip, port |-> r.port])
  BY <1>1 DEF UdpInv, Udp!TypeOK
<1> QED BY <1>2 DEF Udp!NewAgent, Udp!Address

LEMMA ChainGrows ==
  ASSUME NEW of, Chain(of), DOMAIN agents \subseteq DOMAIN agents'
  PROVE  Chain(of)'
  BY DEF Chain, Udp!Key, Udp!Client

\* Receiving takes away and adds; a duplicate may stay.
LEMMA ReceivedBounds ==
  ASSUME NEW d \in net, NEW sent, Udp!Received(d, sent)
  PROVE  net' \subseteq net \union sent
  BY DEF Udp!Received

LEMMA WayKept ==
  ASSUME NEW m, OnItsWay(m), DOMAIN agents \subseteq DOMAIN agents'
  PROVE  OnItsWay(m)'
<1>1. Chain(m.of)'
  BY ChainGrows DEF OnItsWay
<1> QED BY <1>1 DEF OnItsWay, ToProxy, ToServer, ToAgent, ToClient, Udp!Last, Udp!Key,
         Udp!Address, Udp!Client, Udp!FrontAddr, Server

\* Sessions stay, so that only what is sent has to be looked at.
LEMMA NetInv ==
  ASSUME UdpInv, NEW m, OnItsWay(m)', net' \subseteq net \union {m},
         DOMAIN agents \subseteq DOMAIN agents'
  PROVE  (\A n \in net : OnItsWay(n))'
<1>1. ASSUME NEW n \in net PROVE OnItsWay(n)'
  BY WayKept DEF UdpInv
<1> QED BY <1>1

LEMMA NetShrinks ==
  ASSUME UdpInv, net' \subseteq net, DOMAIN agents \subseteq DOMAIN agents'
  PROVE  (\A n \in net : OnItsWay(n))'
<1>1. ASSUME NEW n \in net PROVE OnItsWay(n)'
  BY WayKept DEF UdpInv
<1> QED BY <1>1

-----------------------------------------------------------------------------
(* UdpProxy: the invariant holds                                            *)

LEMMA UdpInitInv == Udp!Init => UdpInv
  BY DEF Udp!Init, UdpInv, Udp!TypeOK, KeysApart

\* get_agent() leaves the sessions that are there, and one for the request, made
\* as its key says.
LEMMA GetAgentInv ==
  ASSUME UdpInv, NEW from \in Udp!Client \union DOMAIN agents,
         NEW text \in (ServerIp \union {BadIp}) \X PortText,
         NEW r, r = Udp!RequestOf(from, text), Udp!GetAgent(r),
         server' = server, got' = got
  PROVE  /\ DOMAIN agents' = DOMAIN agents \union {Udp!Key(r)}
         /\ agents'[Udp!Key(r)] = Udp!NewAgent(r)
         /\ Udp!TypeOK' /\ KeysApart'
<1>r. /\ r = [client |-> from, ip |-> text[1], port |-> text[2]]
      /\ text[1] \in ServerIp \union {BadIp} /\ text[2] \in PortText
  BY DEF Udp!RequestOf
<1> DEFINE k == Udp!Key(r)
<1>k. k = <<from, text[1], text[2]>> /\ k[1] = from /\ k[2] = text[1] /\ k[3] = text[2]
  BY <1>r DEF Udp!Key
<1>1. CASE k \in DOMAIN agents
  <2>1. UNCHANGED <<agents, reading>>
    BY <1>1 DEF Udp!GetAgent
  <2>2. Udp!TypeOK' /\ KeysApart'
    BY <2>1 DEF UdpInv, Udp!TypeOK, KeysApart, Udp!NewAgent, Udp!Address
  <2> QED BY <1>1, <2>1, <2>2, AgentByKey
<1>2. CASE k \notin DOMAIN agents
  <2>1. /\ agents' = [j \in DOMAIN agents \union {k} |->
                        IF j \in DOMAIN agents THEN agents[j] ELSE Udp!NewAgent(r)]
        /\ reading' = Udp!ReadingNew(k)
    BY <1>2 DEF Udp!GetAgent
  <2> HIDE DEF k
  <2>2. DOMAIN agents' = DOMAIN agents \union {k}
    BY <2>1
  <2>3. agents'[k] = Udp!NewAgent(r) /\ \A j \in DOMAIN agents : agents'[j] = agents[j]
    BY <1>2, <2>1
  <2>4. reading' \subseteq DOMAIN agents'
    BY <2>1, <2>2 DEF UdpInv, Udp!TypeOK, Udp!ReadingNew
  <2>5. ASSUME NEW j \in DOMAIN agents'
        PROVE  /\ j[2] \in ServerIp \union {BadIp} /\ j[3] \in PortText
               /\ j[1] \in Udp!Client \union DOMAIN agents'
               /\ agents'[j] = Udp!NewAgent([client |-> j[1], ip |-> j[2], port |-> j[3]])
    <3>1. CASE j = k
      BY <1>r, <1>k, <2>2, <2>3, <3>1
    <3>2. CASE j # k
      BY <2>2, <2>3, <3>2 DEF UdpInv, Udp!TypeOK
    <3> QED BY <3>1, <3>2
  <2>6. Udp!TypeOK'
    <3>1. server' \in {"none", "bound", "deaf"} /\ got' \subseteq Udp!Request
      BY DEF UdpInv, Udp!TypeOK
    <3> QED BY <2>4, <2>5, <3>1
         DEF Udp!TypeOK, Udp!NewAgent, Udp!Address, Udp!Client, Udp!Request, Udp!RequestOf,
             Udp!Text
  <2>7. KeysApart'
    <3>1. k[1] # k
      <4>1. CASE from \in Udp!Client
        BY <1>k, <4>1, AddressIsNoKey DEF k
      <4>2. CASE from \in DOMAIN agents
        BY <1>2, <1>k, <4>2
      <4> QED BY <4>1, <4>2
    <3> QED BY <1>k, <2>2, <3>1 DEF UdpInv, KeysApart
  <2> QED BY <2>2, <2>3, <2>6, <2>7 DEF k
<1> QED BY <1>1, <1>2

\* A request made of the proxy is one more link of the chain.
LEMMA ChainAppended ==
  ASSUME NEW of, NEW r, Chain(of), DOMAIN agents \subseteq DOMAIN agents',
         Udp!Key(r) \in DOMAIN agents',
         Len(of) = 0 => r.client \in Udp!Client,
         Len(of) > 0 => r.client = Udp!Key(Udp!Last(of))
  PROVE  /\ Chain(Append(of, r))'
         /\ Len(Append(of, r)) > 0
         /\ Udp!Last(Append(of, r)) = r
<1>1. PICK S : of \in Seq(S)
  BY DEF Chain
<1>2. of \in Seq(S \union {r})
  BY <1>1, SeqMonotonic
<1> DEFINE n == Len(of)
           more == Append(of, r)
<1>3. /\ n \in Nat
      /\ more \in Seq(S \union {r}) /\ Len(more) = n + 1
      /\ more[n + 1] = r /\ \A i \in 1 .. n : more[i] = of[i]
  BY <1>2, AppendProperties, LenProperties
<1>l. Udp!Last(of) = of[n] /\ Udp!Last(more) = more[Len(more)]
  BY DEF Udp!Last
<1> HIDE DEF more, n
<1>4. ASSUME NEW i \in 1 .. Len(more)
      PROVE  /\ Udp!Key(more[i]) \in DOMAIN agents'
             /\ i = 1 => more[i].client \in Udp!Client
             /\ i > 1 => more[i].client = Udp!Key(more[i - 1])
  <2>1. CASE i <= n
    <3>1. i \in 1 .. n /\ more[i] = of[i] /\ (i > 1 => more[i - 1] = of[i - 1])
      BY <1>3, <1>4, <2>1
    <3> QED BY <3>1 DEF Chain, n
  <2>2. CASE i = n + 1
    <3>1. more[i] = r /\ (i > 1 => more[i - 1] = of[n] /\ n > 0) /\ (i = 1 => n = 0)
      BY <1>3, <2>2
    <3> QED BY <1>l, <3>1 DEF n
  <2> QED BY <1>3, <1>4, <2>1, <2>2
<1>5. Chain(more)'
  BY <1>3, <1>4 DEF Chain, Udp!Key, Udp!Client
<1>6. Len(more) > 0 /\ Udp!Last(more) = r
  BY <1>3, <1>l
<1> QED BY <1>5, <1>6 DEF more

\* A reply that reaches an agent is for the request the agent was made for, or for
\* one it has itself made of the proxy; the request before that one is its own then.
LEMMA ChainAnswered ==
  ASSUME UdpInv, NEW of, Chain(of), Len(of) > 0, NEW k \in DOMAIN agents,
         k \in {Udp!Key(Udp!Last(of)), Udp!Last(of).client}
  PROVE  /\ Chain(Udp!OpenAt(k, of))
         /\ Len(Udp!OpenAt(k, of)) > 0
         /\ k = Udp!Key(Udp!Last(Udp!OpenAt(k, of)))
<1> DEFINE n == Len(of)
           r == Udp!Last(of)
<1>1. PICK S : of \in Seq(S)
  BY DEF Chain
<1>2. n \in Nat /\ n > 0 /\ r = of[n]
  BY <1>1, LenProperties DEF Udp!Last
<1>3. CASE r.client = k
  <2>1. k \notin Udp!Client
    BY AddressIsNoKey DEF UdpInv
  <2>2. n > 1 /\ k = Udp!Key(of[n - 1])
    BY <1>2, <1>3, <2>1 DEF Chain
  <2> DEFINE less == SubSeq(of, 1, n - 1)
  <2>3. Udp!OpenAt(k, of) = less
    BY <1>3 DEF Udp!OpenAt, Udp!Front
  <2>4. /\ less \in Seq(S) /\ Len(less) = n - 1
        /\ \A i \in 1 .. n - 1 : less[i] = of[i]
    BY <1>1, <1>2, <2>2, SubSeqProperties
  <2>l. Udp!Last(less) = less[Len(less)]
    BY DEF Udp!Last
  <2> HIDE DEF less
  <2>5. Chain(less)
    <3>1. ASSUME NEW i \in 1 .. Len(less)
          PROVE  /\ Udp!Key(less[i]) \in DOMAIN agents
                 /\ i = 1 => less[i].client \in Udp!Client
                 /\ i > 1 => less[i].client = Udp!Key(less[i - 1])
      <4>1. i \in 1 .. n /\ less[i] = of[i] /\ (i > 1 => less[i - 1] = of[i - 1])
        BY <1>2, <2>4, <3>1
      <4> QED BY <4>1 DEF Chain
    <3> QED BY <2>4, <3>1 DEF Chain
  <2>6. Len(less) > 0 /\ Udp!Last(less) = of[n - 1]
    BY <1>2, <2>2, <2>4, <2>l
  <2> QED BY <2>2, <2>3, <2>5, <2>6
<1>4. CASE r.client # k
  <2>1. Udp!OpenAt(k, of) = of
    BY <1>4 DEF Udp!OpenAt
  <2> QED BY <1>4, <2>1
<1> QED BY <1>3, <1>4

\* What reaches the proxy is a client's request or an agent's message to a server.
LEMMA UdpForwardInv ==
  ASSUME UdpInv, NEW d \in net, Udp!Forward(d)
  PROVE  UdpInv'
<1>1. PICK text \in Udp!Unpacked(d.text) :
        LET r == Udp!RequestOf(d.src, text)
        IN  /\ Udp!GetAgent(r)
            /\ Udp!Send(Udp!Key(r), d,
                 Udp!Message(Udp!Key(r), agents'[Udp!Key(r)].sa, Append(d.of, r)))
  BY DEF Udp!Forward
<1>r. PICK r : r = Udp!RequestOf(d.src, text)
  OBVIOUS
<1>m. PICK m : m = Udp!Message(Udp!Key(r), agents'[Udp!Key(r)].sa, Append(d.of, r))
  OBVIOUS
<1>2. OnItsWay(d) /\ d.dst = Udp!FrontAddr
  BY DEF Udp!Forward, UdpInv
<1>3. ToProxy(d) \/ ToServer(d)
  <2>1. d.dst \notin Udp!Client /\ \A q : d.dst # Udp!Key(q)
    BY <1>2, AddressAssumption, AddressIsNoKey DEF Udp!Client, Udp!FrontAddr
  <2>2. ~ToAgent(d)
    BY <2>1 DEF ToAgent
  <2>3. ToClient(d) => FALSE
    <3> SUFFICES ASSUME ToClient(d) PROVE FALSE
      OBVIOUS
    <3> DEFINE n == Len(d.of)
    <3>1. PICK S : d.of \in Seq(S)
      BY <1>2 DEF OnItsWay, Chain
    <3>2. n \in Nat /\ n > 0 /\ d.dst = d.of[n].client
      BY <3>1, LenProperties DEF ToClient, Udp!Last
    <3>3. d.of[n].client \in Udp!Client \/ d.of[n].client = Udp!Key(d.of[n - 1])
      BY <1>2, <3>2 DEF OnItsWay, Chain
    <3> QED BY <2>1, <3>2, <3>3
  <2> QED BY <1>2, <2>2, <2>3 DEF OnItsWay
<1>4. /\ d.src \in Udp!Client \union DOMAIN agents
      /\ Len(d.of) = 0 => d.src \in Udp!Client
      /\ Len(d.of) > 0 => d.src = Udp!Key(Udp!Last(d.of))
  <2>1. CASE ToProxy(d)
    <3>1. Len(d.of) = 0
      BY <2>1 DEF ToProxy
    <3> QED BY <2>1, <3>1 DEF ToProxy
  <2>2. CASE ToServer(d)
    <3>1. PICK S : d.of \in Seq(S)
      BY <1>2 DEF OnItsWay, Chain
    <3>2. Len(d.of) \in Nat /\ Len(d.of) > 0
      BY <2>2, <3>1, LenProperties DEF ToServer
    <3>3. Udp!Key(Udp!Last(d.of)) \in DOMAIN agents
      BY <1>2, <3>2 DEF OnItsWay, Chain, Udp!Last
    <3> QED BY <2>2, <3>2, <3>3 DEF ToServer
  <2> QED BY <1>3, <2>1, <2>2
<1>5. text \in (ServerIp \union {BadIp}) \X PortText
  <2>1. Udp!Unpacked(d.text) \subseteq (ServerIp \union {BadIp}) \X PortText
    BY DEF Udp!Unpacked, Udp!Text
  <2> QED BY <2>1
<1>6. server' = server /\ got' = got
  BY DEF Udp!Forward
<1>c. r.client = d.src
  BY <1>r DEF Udp!RequestOf
<1>g. Udp!GetAgent(r) /\ Udp!Send(Udp!Key(r), d, m)
  BY <1>1, <1>r, <1>m
<1>7. /\ DOMAIN agents' = DOMAIN agents \union {Udp!Key(r)}
      /\ agents'[Udp!Key(r)] = Udp!NewAgent(r)
      /\ Udp!TypeOK' /\ KeysApart'
  BY <1>4, <1>5, <1>6, <1>r, <1>g, GetAgentInv
<1>8. /\ m.what = "message" /\ m.src = Udp!Key(r) /\ m.of = Append(d.of, r)
      /\ m.dst = Udp!Address(r)
  BY <1>7, <1>m DEF Udp!Message, Udp!Datagram, Udp!NewAgent
<1>s. net' \subseteq net \union {m}
  BY <1>g, ReceivedBounds DEF Udp!Send
<1>9. Chain(m.of)' /\ Len(m.of) > 0 /\ Udp!Last(m.of) = r
  BY <1>2, <1>4, <1>7, <1>8, <1>c, ChainAppended DEF OnItsWay
<1>10. OnItsWay(m)'
  BY <1>8, <1>9 DEF OnItsWay, ToServer, Udp!Last, Udp!Key, Udp!Address
<1>11. (\A n \in net : OnItsWay(n))'
  BY <1>7, <1>10, <1>s, NetInv
<1> QED BY <1>7, <1>11 DEF UdpInv

LEMMA UdpAgentReceiveInv ==
  ASSUME UdpInv, NEW d \in net, NEW k \in reading, Udp!AgentReceive(k, d)
  PROVE  UdpInv'
<1>o. PICK of : of = Udp!OpenAt(k, d.of)
  OBVIOUS
<1>m. PICK m : m = Udp!Reply(k, agents[k].ca, of)
  OBVIOUS
<1>1. /\ k \in DOMAIN agents /\ d.dst = k /\ OnItsWay(d)
      /\ UNCHANGED <<server, agents, reading, got>>
      /\ net' \subseteq net \union {m}
  BY <1>o, <1>m, ReceivedBounds DEF Udp!AgentReceive, Udp!Send, UdpInv, Udp!TypeOK
<1>2. ToAgent(d) \/ ToClient(d)
  <2>1. ~ToProxy(d)
    BY <1>1, AddressIsNoKey DEF ToProxy, UdpInv
  <2>2. ~ToServer(d)
    BY <1>1, AddressIsNoKey DEF ToServer, UdpInv
  <2> QED BY <1>1, <2>1, <2>2 DEF OnItsWay
<1>3. Chain(of) /\ Len(of) > 0 /\ k = Udp!Key(Udp!Last(of))
  BY <1>1, <1>2, <1>o, ChainAnswered DEF OnItsWay, ToAgent, ToClient
<1>4. agents[k].ca = Udp!Last(of).client
  BY <1>1, <1>3, AgentByKey DEF Udp!NewAgent
<1>5. m.what = "reply" /\ m.src = k /\ m.dst = Udp!Last(of).client /\ m.of = of
  BY <1>4, <1>m DEF Udp!Reply, Udp!Datagram
<1>6. OnItsWay(m)
  BY <1>1, <1>3, <1>5 DEF OnItsWay, ToClient
<1>7. OnItsWay(m)'
  BY <1>1, <1>6, WayKept
<1>8. (\A n \in net : OnItsWay(n))'
  BY <1>1, <1>7, NetInv
<1> QED BY <1>1, <1>8 DEF UdpInv, Udp!TypeOK, KeysApart, Udp!NewAgent, Udp!Address, Udp!Client,
         Udp!Request, Udp!RequestOf, Udp!Text

\* A step that leaves the sessions alone.
LEMMA UdpQuietInv ==
  ASSUME UdpInv, UNCHANGED <<agents, reading>>, server' \in {"none", "bound", "deaf"},
         got' \subseteq Udp!Request,
         \/ net' \subseteq net
         \/ \E m : OnItsWay(m) /\ net' \subseteq net \union {m}
  PROVE  UdpInv'
<1>1. ASSUME NEW m, OnItsWay(m), net' \subseteq net \union {m}
      PROVE  (\A n \in net : OnItsWay(n))'
  <2>1. OnItsWay(m)'
    BY <1>1, WayKept
  <2> QED BY <1>1, <2>1, NetInv
<1>2. (\A n \in net : OnItsWay(n))'
  BY <1>1, NetShrinks
<1> QED BY <1>2 DEF UdpInv, Udp!TypeOK, KeysApart, Udp!NewAgent, Udp!Address, Udp!Client,
         Udp!Request, Udp!RequestOf, Udp!Text

\* A server answers the agent that sent it the message.
LEMMA UdpServerReplyInv ==
  ASSUME UdpInv, NEW d \in net, Udp!ServerReply(d)
  PROVE  UdpInv'
<1>m. PICK m : m = Udp!Reply(d.dst, d.src, d.of)
  OBVIOUS
<1>1. /\ OnItsWay(d) /\ d.dst \in Server /\ d.dst \notin Udp!Client \union {Udp!FrontAddr}
      /\ net' \subseteq net \union {m}
      /\ UNCHANGED <<server, agents, reading, got>>
  BY <1>m, ReceivedBounds DEF Udp!ServerReply, UdpInv, Server
<1>2. ToServer(d)
  <2>1. \A q : d.dst # Udp!Key(q)
    BY <1>1, AddressIsNoKey
  <2>2. ~ToProxy(d) /\ ~ToAgent(d)
    BY <1>1, <2>1 DEF ToProxy, ToAgent
  <2>3. ToClient(d) => FALSE
    <3> SUFFICES ASSUME ToClient(d) PROVE FALSE
      OBVIOUS
    <3> DEFINE n == Len(d.of)
    <3>1. PICK S : d.of \in Seq(S)
      BY <1>1 DEF OnItsWay, Chain
    <3>2. n \in Nat /\ n > 0 /\ d.dst = d.of[n].client
      BY <3>1, LenProperties DEF ToClient, Udp!Last
    <3>3. d.of[n].client \in Udp!Client \/ d.of[n].client = Udp!Key(d.of[n - 1])
      BY <1>1, <3>2 DEF OnItsWay, Chain
    <3> QED BY <1>1, <2>1, <3>2, <3>3
  <2> QED BY <1>1, <2>2, <2>3 DEF OnItsWay
<1>3. m.what = "reply" /\ m.src = d.dst /\ m.dst = d.src /\ m.of = d.of
  BY <1>m DEF Udp!Reply, Udp!Datagram
<1>4. OnItsWay(m)
  BY <1>1, <1>2, <1>3 DEF OnItsWay, ToServer, ToAgent
<1>5. server \in {"none", "bound", "deaf"} /\ got \subseteq Udp!Request
  BY DEF UdpInv, Udp!TypeOK
<1> QED BY <1>1, <1>4, <1>5, UdpQuietInv

\* One step of anybody keeps the invariant.
LEMMA UdpStepInv ==
  ASSUME UdpInv, [Udp!Next]_Udp!vars
  PROVE  UdpInv'
<1>t. server \in {"none", "bound", "deaf"} /\ got \subseteq Udp!Request
  BY DEF UdpInv, Udp!TypeOK
<1>1. CASE Udp!Start \/ UNCHANGED Udp!vars
  BY <1>1, <1>t, UdpQuietInv DEF Udp!Start, Udp!vars
<1>2. ASSUME NEW c \in Udp!Client, Udp!Ask(c) PROVE UdpInv'
  <2>1. PICK text : net' = net \union {Udp!AskFor(c, text)}
    BY <1>2 DEF Udp!Ask
  <2>m. PICK m : m = Udp!AskFor(c, text)
    OBVIOUS
  <2>2. m.what = "request" /\ m.src = c /\ m.dst = Udp!FrontAddr /\ m.of = <<>>
    BY <2>m DEF Udp!AskFor, Udp!Datagram
  <2>3. Chain(<<>>)
    BY EmptySeq DEF Chain
  <2>4. OnItsWay(m)
    BY <2>2, <2>3 DEF OnItsWay, ToProxy
  <2> QED BY <1>2, <1>t, <2>1, <2>m, <2>4, UdpQuietInv DEF Udp!Ask
<1>3. ASSUME NEW d \in net, Udp!ClientReceive(d) \/ Udp!Lose(d) PROVE UdpInv'
  <2>1. net' \subseteq net /\ UNCHANGED <<server, agents, reading>>
    BY <1>3, ReceivedBounds DEF Udp!ClientReceive, Udp!Lose
  <2>2. got' \subseteq Udp!Request
    BY <1>3, <1>t DEF Udp!ClientReceive, Udp!Lose
  <2> QED BY <1>t, <2>1, <2>2, UdpQuietInv
<1> QED BY <1>1, <1>2, <1>3, UdpForwardInv, UdpAgentReceiveInv, UdpServerReplyInv DEF Udp!Next

LEMMA RoutedByInv == UdpInv => Udp!Routed
<1> SUFFICES ASSUME UdpInv, NEW m \in net, m.src \in DOMAIN agents
             PROVE  m.dst = IF m.what = "message" THEN Udp!Address(Udp!Last(m.of))
                                                  ELSE Udp!Last(m.of).client
  BY DEF Udp!Routed
<1>1. m.src \notin Udp!Client \union Server
  BY AddressIsNoKey DEF UdpInv
<1>2. ToServer(m) \/ ToClient(m)
  BY <1>1 DEF UdpInv, OnItsWay, ToProxy, ToAgent
<1> QED BY <1>2 DEF ToServer, ToClient

\* What a run of the program is when it comes to the UDP proxy.
LEMMA UdpInvHolds == ProgramSpec => []UdpInv
<1>1. ProgramInit => UdpInv
  BY UdpInitInv DEF ProgramInit
<1>2. UdpInv /\ [ProgramNext]_allVars => UdpInv'
  <2>1. [ProgramNext]_allVars => [Udp!Next]_(Udp!vars)
    BY DEF ProgramNext, allVars, udpVars, Udp!vars
  <2> QED BY <2>1, UdpStepInv
<1> QED BY <1>1, <1>2, PTL DEF ProgramSpec

\* session_ and the agents' sockets keep their types, whatever is received
\* (UdpProxy::get_agent(), UdpAgent::forward()), when main() runs UdpProxy.
THEOREM UdpTypeCorrect == ProgramSpec => []Udp!TypeOK
<1>1. UdpInv => Udp!TypeOK
  BY DEF UdpInv
<1> QED BY <1>1, UdpInvHolds, PTL

\* Every datagram an agent sends goes to the server its request names or back to
\* who made the request (UdpProxy::forward() and the agent's message callback), for
\* any number of clients, servers, ports, agents and datagrams, all on one host or
\* not, also when requests lead to the proxy itself.
THEOREM RoutedHolds == ProgramSpec => []Routed
<1>1. UdpInv => Routed
  BY RoutedByInv DEF Routed
<1> QED BY <1>1, UdpInvHolds, PTL

-----------------------------------------------------------------------------
(* TcpProxy                                                                 *)

\* A connection that is being closed, or was, past the server.
Bypassed(c) == handle[c] \in {"closing", "finishing", "closed"} /\ ~completion[c]

ProxyInv ==
  /\ Ownership
  /\ held \subseteq Conn
  /\ link = [a \in Agent |-> link[a]]
  /\ client = [a \in Agent |-> client[a]]
  /\ \A a \in Agent : link[a] \in {"pending", "up"} => client[a] \in held
  /\ \A c \in Conn : Bypassed(c) => \E a \in Agent : client[a] = c /\ Ended(a)

\* Of all that closes connections only close_connection() sets a completion, and
\* whatever it closes gets one.
LEMMA OnSocketCloseBypassesNone ==
  ASSUME NEW conns, OnSocketClose(conns)
  PROVE  \A c \in Conn : Bypassed(c)' => Bypassed(c)
  BY DEF OnSocketClose, CloseConnections, Bypassed

\* The steps of the proxy's server keep the server's invariant and bypass nothing.
LEMMA ServerStepKeeps ==
  ASSUME Ownership, ~PortReuse, ServerStep
  PROVE  /\ Ownership'
         /\ \A c \in Conn : Bypassed(c)' => Bypassed(c)
<1> DEFINE Keeps == Ownership' /\ \A c \in Conn : Bypassed(c)' => Bypassed(c)
<1> SUFFICES Keeps
  OBVIOUS
<1>1. UNCHANGED <<name, closeVars>> => Keeps
  BY OwnershipFrame DEF closeVars, Bypassed
<1>2. ASSUME NEW c \in Conn, OnSocketClose({c}), name' = name PROVE Keeps
  BY <1>2, {c} \in SUBSET Conn, OnSocketCloseInv, OnSocketCloseBypassesNone
<1>3. CASE Listen
  BY <1>1, <1>3 DEF Listen
<1>4. ASSUME NEW c \in Conn, NEW n \in Name, Accept(c, n) PROVE Keeps
  <2>1. \A d \in Conn : Bypassed(d)' => Bypassed(d)
    BY <1>4 DEF Accept, Bypassed, Ownership, Typed
  <2> QED BY <1>4, <2>1, AcceptInv
<1>5. ASSUME NEW c \in Conn,
             \/ ReadData(c) \/ ReadEof(c) \/ WriteDone(c) \/ PeerFin(c) \/ PeerGone(c)
      PROVE  Keeps
  BY <1>1, <1>5 DEF ReadData, ReadBytes, ReadEof, WriteDone, PeerFin, PeerGone
<1>6. ASSUME NEW c \in Conn, ReadError(c) \/ ShutdownDone(c) PROVE Keeps
  BY <1>2, <1>6 DEF ReadError, ShutdownDone
<1>7. ASSUME NEW c \in Conn, FinishConnection(c) PROVE Keeps
  <2>1. \A d \in Conn : Bypassed(d)' => Bypassed(d)
    BY <1>7 DEF FinishConnection, Bypassed, Ownership, Typed
  <2> QED BY <1>7, <2>1, FinishInv
<1>8. CASE Turn
  <2>1. CASE PollDone
    <3>1. \A d \in Conn : Bypassed(d)' => Bypassed(d)
      BY <2>1 DEF PollDone, Bypassed
    <3> QED BY <2>1, <3>1, PollDoneInv
  <2>2. CASE ClosingDone \/ TimersDone
    BY <1>1, <2>2 DEF ClosingDone, TimersDone
  <2> QED BY <1>8, <2>1, <2>2 DEF Turn
<1> HIDE DEF Keeps
<1> QED BY <1>3, <1>4, <1>5, <1>6, <1>7, <1>8 DEF ServerStep, Read

LEMMA ProxyInitInv == ProxyInit => ProxyInv
<1> SUFFICES ASSUME ProxyInit PROVE ProxyInv
  OBVIOUS
<1>1. Ownership
  BY InitOwnership DEF ProxyInit
<1>2. held \subseteq Conn /\ \A c \in Conn : ~Bypassed(c)
  BY DEF ProxyInit, Init, Bypassed
<1>3. link = [a \in Agent |-> "idle"] /\ client = [a \in Agent |-> None]
  BY DEF ProxyInit, Links!Init
<1>4. /\ link = [a \in Agent |-> link[a]] /\ client = [a \in Agent |-> client[a]]
      /\ \A a \in Agent : link[a] = "idle"
  BY <1>3
<1> QED BY <1>1, <1>2, <1>4 DEF ProxyInv

\* An agent that has not ended gives no one away.
LEMMA ProxyStepInv ==
  ASSUME ProxyInv, ~PortReuse, ProxyNext
  PROVE  ProxyInv'
<1>1. CASE ServerStep /\ UNCHANGED agentVars
  <2>1. held' = held
    BY <1>1 DEF ServerStep, Listen, Accept, Read, ReadData, ReadEof, ReadError, WriteDone,
       ShutdownDone, FinishConnection, PeerFin, PeerGone, Turn, PollDone, ClosingDone,
       TimersDone
  <2> QED BY <1>1, <2>1, ServerStepKeeps DEF ProxyInv, agentVars, Ended
<1>2. ASSUME NEW c \in Conn, Bind(c) PROVE ProxyInv'
  <2>1. PICK a \in Agent : Links!Begin(a) /\ client' = [client EXCEPT ![a] = c]
    BY <1>2 DEF Bind
  <2>2. UNCHANGED <<name, closeVars>> /\ held' = held \union {c}
    BY <1>2 DEF Bind, ReadBytes, Captured
  <2>3. Ownership' /\ \A d \in Conn : Bypassed(d)' => Bypassed(d)
    BY <2>2, OwnershipFrame DEF ProxyInv, closeVars, Bypassed
  <2>4. link[a] = "idle" /\ \E to : link' = [link EXCEPT ![a] = to]
    BY <2>1 DEF Links!Begin, Links!Move
  <2>5. \A b \in Agent : Ended(b) => Ended(b)' /\ client'[b] = client[b]
    BY <2>1, <2>4 DEF ProxyInv, Ended
  <2>6. \A d \in Conn : Bypassed(d)' => \E b \in Agent : client'[b] = d /\ Ended(b)'
    BY <2>3, <2>5 DEF ProxyInv
  <2>7. \A b \in Agent : link'[b] \in {"pending", "up"} => client'[b] \in held'
    BY <2>1, <2>2, <2>4 DEF ProxyInv
  <2>8. /\ link' = [b \in Agent |-> link'[b]]
        /\ client' = [b \in Agent |-> client'[b]]
    BY <2>1, <2>4 DEF ProxyInv
  <2> QED BY <2>2, <2>3, <2>6, <2>7, <2>8 DEF ProxyInv
<1>3. ASSUME NEW a \in Agent, AgentConnected(a) PROVE ProxyInv'
  <2>1. /\ UNCHANGED <<name, closeVars, held, client>>
        /\ link[a] = "pending" /\ link' = [link EXCEPT ![a] = "up"]
    BY <1>3 DEF AgentConnected, Links!Succeed, Links!Move
  <2>2. Ownership' /\ \A d \in Conn : Bypassed(d)' => Bypassed(d)
    BY <2>1, OwnershipFrame DEF ProxyInv, closeVars, Bypassed
  <2>3. \A b \in Agent : Ended(b) => Ended(b)'
    BY <2>1 DEF ProxyInv, Ended
  <2> QED BY <2>1, <2>2, <2>3 DEF ProxyInv
<1>4. ASSUME NEW a \in Agent, AgentEnded(a) PROVE ProxyInv'
  <2>1. /\ UNCHANGED client /\ UserDirectClose(client[a])
        /\ link[a] \in {"pending", "up"}
        /\ \E to \in {"failed", "over"} : link' = [link EXCEPT ![a] = to]
    BY <1>4 DEF AgentEnded, CloseClient, Links!Fail, Links!Lose, Links!Move
  <2>2. client[a] \in Conn /\ held' = held
    BY <2>1 DEF ProxyInv, UserDirectClose
  <2>3. Ownership'
    BY <2>1, <2>2, DirectCloseInv DEF ProxyInv
  <2>4. \A d \in Conn \ {client[a]} : Bypassed(d)' => Bypassed(d)
    BY <2>1, <2>2 DEF UserDirectClose, Bypassed, ProxyInv, Ownership, Typed
  <2>5. Ended(a)' /\ \A b \in Agent : Ended(b) => Ended(b)'
    BY <2>1 DEF ProxyInv, Ended
  <2>6. \A d \in Conn : Bypassed(d)' => \E b \in Agent : client'[b] = d /\ Ended(b)'
    BY <2>1, <2>4, <2>5 DEF ProxyInv
  <2> QED BY <2>1, <2>2, <2>3, <2>6 DEF ProxyInv
<1> QED BY <1>1, <1>2, <1>3, <1>4 DEF ProxyNext

\* What a run of the program is when it comes to the TCP proxy.
LEMMA ProxyInvHolds ==
  ASSUME ~PortReuse
  PROVE  ProgramSpec => []ProxyInv
<1>1. ProgramInit => ProxyInv
  BY ProxyInitInv DEF ProgramInit
<1>2. ProxyInv /\ [ProgramNext]_allVars => ProxyInv'
  <2>1. ProxyInv /\ UNCHANGED proxyVars => ProxyInv'
    <3>1. ASSUME ProxyInv, UNCHANGED proxyVars PROVE ProxyInv'
      <4>1. Ownership' /\ \A d \in Conn : Bypassed(d)' => Bypassed(d)
        BY <3>1, OwnershipFrame DEF ProxyInv, proxyVars, vars, closeVars, Bypassed
      <4> QED BY <3>1, <4>1 DEF ProxyInv, proxyVars, vars, agentVars, Ended
    <3> QED BY <3>1
  <2> QED BY <2>1, ProxyStepInv DEF ProgramNext, allVars
<1> QED BY <1>1, <1>2, PTL DEF ProgramSpec

\* Whatever agents come and go, an agent that may still call back finds its client,
\* and libuv finds every handle it works on.
THEOREM CallbackOnLiveClientHolds ==
  ASSUME ~PortReuse
  PROVE  ProgramSpec => []CallbackOnLiveClient
<1>1. ProxyInv => CallbackOnLiveClient
  BY DEF ProxyInv, Ownership, Named, OwnedByMap, CallbackOnLiveClient,
     HandleOutlivesLibuv, Alive, InMap
<1> QED BY <1>1, ProxyInvHolds, PTL

\* The server's map keeps a closed connection only where TcpProxy's agent callback
\* closed it past the server.
THEOREM StaleEntryByAgentHolds ==
  ASSUME ~PortReuse
  PROVE  ProgramSpec => []StaleEntryByAgent
<1>1. ProxyInv => StaleEntryByAgent
  <2> SUFFICES ASSUME ProxyInv, NEW n \in Name, connnections[n] # None,
                      handle[connnections[n]] = "closed"
               PROVE  \E a \in Agent : client[a] = connnections[n] /\ Ended(a)
    BY DEF StaleEntryByAgent
  <2>1. connnections[n] \in Conn /\ reported[connnections[n]] = 0
    BY OneEntry DEF ProxyInv, Ownership, Typed
  <2>2. Bypassed(connnections[n])
    BY <2>1 DEF Bypassed, ProxyInv, Ownership, ReportedOnce
  <2> QED BY <2>1, <2>2 DEF ProxyInv
<1> QED BY <1>1, ProxyInvHolds, PTL
=============================================================================
