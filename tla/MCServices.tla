----------------------------- MODULE MCServices -----------------------------
(***************************************************************************)
(* The parts that work side by side, each over the small instance below:   *)
(* the services, the update, the locks and the shared rings.  A behaviour  *)
(* is a scene of one of them; the others stay as they begin.               *)
(***************************************************************************)
EXTENDS Exchange, Conversion, SnmpWalk, Discovery, TimeSync, MqttSession, RestApi,
        FirmwareUpdate, Locks, RingSharing

-----------------------------------------------------------------------------
(* Exchange: every service, with the widths at which an encoding changes. *)
Dev(n) == [type |-> 8, instance |-> n]
Input == [type |-> 0, instance |-> 4194303]

Text(n) == [i \in 1 .. n |-> 65]

Values ==
  {<<"Null">>, <<"Boolean", TRUE>>, <<"Boolean", FALSE>>, <<"Real", <<66, 40, 0, 0>>>>,
   <<"ObjectIdentifier", Input>>, <<"CharString", <<>>>>, <<"CharString", Text(3)>>,
   <<"CharString", Text(4)>>, <<"CharString", Text(6)>>}
    \cup {<<"UnsignedInt", n>> : n \in {0, 255, 256, 65535, 65536, 16777216}}
    \cup {<<"SignedInt", n>> : n \in {0, -1, 127, -128, -129, 32768, -32769}}
    \cup {<<"Enumerated", n>> : n \in {1, 256}}

At(index) == <<Some(Input), Some(<<"PresentValue">>), index>>

Apdus ==
  {Msg("WhoIs", 0, <<None, None>>), Msg("WhoIs", 0, <<Some(0), Some(4194303)>>),
   Msg("IAm", 0, << <<"ObjectIdentifier", Dev(7)>>, <<"UnsignedInt", 1476>>,
                    <<"Enumerated", 3>>, <<"UnsignedInt", 260>> >>),
   Msg("ReadProperty", 1, At(None)), Msg("ReadProperty", 255, At(Some(0))),
   Msg("SimpleAck", 9, <<Some(15)>>), Msg("Error", 9, <<Some(12), Some(2), Some(300)>>),
   Msg("SubscribeCov", 3, <<Some(1), Some(Input), Some(1), None>>),
   Msg("SubscribeCov", 3, <<Some(1), Some(Input), Some(0), Some(3600)>>)}
    \cup {Msg("ReadPropertyAck", 1, At(None) \o <<None, v, None>>) : v \in Values}
    \cup {Msg("WriteProperty", 1, At(i) \o <<None, <<"Real", <<1, 2, 3, 4>>>>, None, p>>) :
            i \in {None, Some(300)}, p \in {None, Some(16)}}
    \cup {Msg("UnconfirmedCovNotification", 0,
              <<Some(1), Some(Dev(7)), Some(Input), Some(60), entries>>) :
            entries \in {<<>>, << << <<"PresentValue">>, <<"Real", <<1, 2, 3, 4>>>> >>,
                                 << <<"Raw", 4194304>>, <<"Null">> >> >>}}

Remote == Some([net |-> 65535, mac |-> <<>>])
Station == Some([net |-> 7, mac |-> <<1, 2, 3, 4, 5, 6, 7>>])

Headers ==
  {NpduHeader(FALSE, None, None, 0, FALSE, 0), NpduHeader(FALSE, Remote, Station, 255, TRUE, 3),
   NpduHeader(FALSE, None, Station, 0, FALSE, 1)}

BacnetMessages ==
  {<<f, [header |-> h, apdu |-> a]>> : f \in {"ip", "mstp"}, h \in Headers, a \in Apdus}
    \cup {<<"forwarded", [header |-> h, apdu |-> Msg("WhoIs", 0, <<None, None>>)]>> : h \in Headers}

SnmpMessages ==
  {<<"snmp", [kind |-> k, id |-> i, community |-> Public, oids |-> o]>> :
     k \in {"Get", "GetNext"}, i \in {0, -1, 128, 40000},
     o \in {<<System \o <<1, 0>>>>, <<Enterprise \o <<2>>, <<2, 39, 127, 128, 16384>>>>}}

MqttMessages ==
  {<<"connect", [client |-> Some(ClientName), keepAlive |-> 60, username |-> u, password |-> p]>> :
     u \in {None, Some(Text(2))}, p \in {None, Some(Text(130))}}
    \cup {<<"publish", [topic |-> Text(5), payload |-> Text(n), retain |-> r]>> :
            n \in {0, 120, 121}, r \in BOOLEAN}
    \cup {<<"connack", TRUE>>, <<"connack", FALSE>>, <<"control", 12>>, <<"control", 14>>}

Stamp(a) == [seconds |-> <<a, 0, 0, 1>>, fraction |-> <<0, a, 0, 2>>]

TimeMessages ==
  {<<"ntp", [li_vn_mode |-> 36, stratum |-> s, poll |-> 6, precision |-> 250,
             root_delay |-> <<0, 0, 1, 0>>, root_dispersion |-> <<0, 0, 2, 0>>,
             ref_id |-> <<1, 2, 3, 4>>, ref_ts |-> Stamp(1), origin_ts |-> Stamp(2),
             recv_ts |-> Stamp(3), transmit_ts |-> Stamp(4)]>> : s \in {0, 1, 15}}
    \cup {<<"ask", [version |-> 4, mode |-> 3]>>}

LogMessages ==
  {<<"syslog", [facility |-> f, severity |-> s, host |-> Text(h), msg |-> Text(n)]>> :
     f \in {0, 1, 16, 23}, s \in {0, 7}, h \in {0, 8, 34, 40}, n \in {0, 20, 40}}

PointMessages ==
  {<<"point", [device |-> d, type |-> t, instance |-> 2, value |-> v]>> :
     d \in {<<>>, Text(4), Text(5)}, t \in {0, 3, 14},
     v \in {<<"Real", n>> : n \in {-250, -5, 0, 99, 100, 2150}}
             \cup {<<"Boolean", TRUE>>, <<"Null">>, <<"Enumerated", 3>>, <<"SignedInt", -7>>,
                   <<"ObjectIdentifier", Input>>, <<"CharString", Text(3)>>, <<"CharString", Text(5)>>}}

MCMessages ==
  BacnetMessages \cup SnmpMessages \cup MqttMessages \cup TimeMessages \cup LogMessages
    \cup PointMessages
    \cup {<<"mdns", [name |-> n, qtype |-> t]>> : n \in {HTTP, SERVICES, <<Text(2)>>}, t \in {1, 12}}
-----------------------------------------------------------------------------
(* Conversion: up to two processors in each order, two devices with the    *)
(* same object, a rule whose convertor is gone.                            *)
Word(w) == <<"word", w>>
Labels == {<<Word("Heat"), Word("Cool")>>, <<Word("Off"), Word("Off")>>, <<Word("ON")>>}

SomeProcessors ==
  {<<"SetUnit", 62>>, <<"Scale", 2, 3>>, <<"Scale", 10, -4>>, <<"Scale", 0, 7>>}
    \cup {<<"MapStates", l>> : l \in Labels}

Rule(device, mode, id) ==
  [device_id |-> device, object_type |-> 14, object_instance |-> 1, mode |-> mode,
   convertor_id |-> id]

MCConfigs ==
  {[BridgeConfigDefault EXCEPT
      !.points = <<Rule(1, mode, "c"), Rule(2, "Processed", "gone")>>,
      !.convertors = <<[id |-> "b", processors |-> <<>>], [id |-> "c", processors |-> ps]>>] :
     mode \in {"Ignore", "Passthrough", "Processed"},
     ps \in UNION {[1 .. n -> SomeProcessors] : n \in 0 .. 2}}
    \cup {[scale |-> f, offset |-> 5, state_text |-> l, exposed |-> e] :
            f \in {0, 1, 3}, l \in {<<>>, <<Word("Heat"), Word("Cool")>>}, e \in {{}, {"mqtt"}}}

MCReports ==
  {[device |-> d, type |-> 14, instance |-> 1, unit |-> 62, raw |-> v] :
     d \in 1 .. 3,
     v \in {<<"Real", 21>>, <<"SignedInt", -2>>, <<"UnsignedInt", 2>>, <<"Enumerated", 1>>,
            <<"Enumerated", 9>>, <<"Boolean", TRUE>>, <<"CharString", Word("text")>>, <<"Null">>}}
    \cup {[device |-> 3, type |-> 0, instance |-> 1, unit |-> u, raw |-> <<"Real", 5>>] :
            u \in UnitCodes \cup {95, 31, 200}}
-----------------------------------------------------------------------------
(* SnmpWalk: before the tree, inside it, between two OIDs, and behind it.  *)
MCWalkStarts ==
  {<<1, 3>>, System \o <<3, 0>>, System \o <<4, 0, 1>>, Enterprise, Enterprise \o <<5>>,
   <<2, 5>>}

MCNames == {Text(1), Text(2)}
-----------------------------------------------------------------------------
(* Discovery: with and without TLS, before and after the set-up, another   *)
(* name, another port.                                                     *)
Setup(host, provisioned, tls, port) ==
  [host |-> host, provisioned |-> provisioned, tls |-> tls, port |-> port]

MCSetups ==
  {Setup(<<97>>, FALSE, FALSE, 443), Setup(<<97>>, TRUE, FALSE, 443), Setup(<<97>>, TRUE, TRUE, 443),
   Setup(<<97>>, TRUE, TRUE, 8443), Setup(<<97, 98>>, TRUE, TRUE, 443)}

MCOurIp == <<10, 0, 0, 5>>
-----------------------------------------------------------------------------
(* FirmwareUpdate: a raw image that ends within a sector, one for which    *)
(* slot B has no room, and UF2 blocks in and out of order, good and bad,   *)
(* two of them in the highest sector, behind it, and beyond slot A.        *)
MCImages ==
  {[name |-> n, format |-> "raw", good |-> TRUE, pages |-> [i \in 1 .. n |-> i - 1]] : n \in {3, 7}}
    \cup {[name |-> 20, format |-> "uf2", good |-> g, pages |-> <<2, 0, 3>>] : g \in BOOLEAN}
    \cup {[name |-> 30, format |-> "uf2", good |-> TRUE, pages |-> ps] : ps \in {<<6, 4>>, <<0, 9>>}}
-----------------------------------------------------------------------------
VARIABLE scene

NoExchange == sent = <<>> /\ wire = <<>> /\ got = Waiting
NoConversion ==
  report = <<>> /\ rules = <<>> /\ display = Nothing /\ unitShown = <<>> /\ written = Nothing
NoWalk == WalkInit /\ first = <<2, 5>>
NoDiscovery == DiscoveryInit /\ settings = Setup(<<97>>, FALSE, FALSE, 443)
NoMqtt == MqttInit /\ step = "idle" /\ alive
NoUpdate == FirmwareInit /\ running = 0 /\ ~remapped

(* Each part begins as itself in its own scene. *)
Begins(s, init, idle) == (scene = s /\ init) \/ (scene # s /\ idle)

MCInit ==
  /\ scene \in 1 .. 10
  /\ Begins(1, ExchangeInit, NoExchange) /\ Begins(2, ConversionInit, NoConversion)
  /\ Begins(3, WalkInit, NoWalk) /\ Begins(4, DiscoveryInit, NoDiscovery)
  /\ Begins(6, MqttInit, NoMqtt) /\ Begins(8, FirmwareInit, NoUpdate)
  /\ TimeInit /\ RestInit /\ LocksInit /\ Init

Stays(s, part) == IF scene = s THEN TRUE ELSE UNCHANGED part

(* A step of the scene's part: the others stay. *)
Only ==
  /\ UNCHANGED scene
  /\ Stays(1, exchangeVars) /\ Stays(2, conversionVars) /\ Stays(3, walkVars)
  /\ Stays(4, discoveryVars) /\ Stays(5, timeVars) /\ Stays(6, mqttVars)
  /\ Stays(7, restVars) /\ Stays(8, firmwareVars) /\ Stays(9, lockVars)
  /\ Stays(10, vars)

MCNext ==
  \/ scene = 1 /\ ExchangeNext /\ Only
  \/ scene = 2 /\ ConversionNext /\ Only
  \/ scene = 3 /\ WalkNext /\ Only
  \/ scene = 4 /\ DiscoveryNext /\ Only
  \/ scene = 5 /\ TimeNext /\ Only
  \/ scene = 6 /\ MqttNext /\ Only
  \/ scene = 7 /\ RestNext /\ Only
  \/ scene = 8 /\ FirmwareNext /\ Only
  \/ scene = 9 /\ LocksNext /\ Only
  \/ scene = 10 /\ Next /\ Only
=============================================================================
