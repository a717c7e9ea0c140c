------------------------------ MODULE MCDataPath ------------------------------
(***************************************************************************)
(* The two ways of the payload, each on its own small instance: SendPath   *)
(* with a ring of four bytes for sessions 0 and 1, ReceivePath with a ring *)
(* of six for sessions 1 and 2, in its three builds; and kernels at its    *)
(* ends, those of the library that send and receive, and the scatter       *)
(* kernel.                                                                 *)
(* Nothing is shared: turn, chosen once, says which of them a behaviour is *)
(* about.                                                                  *)
(***************************************************************************)
EXTENDS SendPath, MCReceive

VARIABLES
    client, sOpenQ, sOpenStatusQ, sMetaQ, sStatusQ, sDataQ,
    listen, consume, listenQ, listenStatusQ, sNotifQ, sReadQ, sRxMetaQ, sRxQ, toe,
    sender, sessionID, castBuffer, openQ, openStatusQ, txMeta, txStatus, txData, granted, refusals, lWire, told,
    listener, receiver, lListenQ, portStatusQ, notifications, readPkg, rxMeta, rxData, lengths, dataOut, lMemory, received,
    turn        \* what this behaviour is about

scatterVars == <<client, sOpenQ, sOpenStatusQ, sMetaQ, sStatusQ, sDataQ,
                 listen, consume, listenQ, listenStatusQ, sNotifQ, sReadQ, sRxMetaQ, sRxQ, toe>>
libraryVars == <<sender, sessionID, castBuffer, openQ, openStatusQ, txMeta, txStatus, txData, granted, refusals, lWire, told,
                 listener, receiver, lListenQ, portStatusQ, notifications, readPkg, rxMeta, rxData, lengths,
                 dataOut, lMemory, received>>

MCWindow == [s \in Sessions |-> IF s = 0 THEN 2 ELSE 3]

(* Session 1 sends three segments and a FIN that may arrive in any order,  *)
(* session 2 one.                                                          *)
MCCuts == << {<<0, 1, "ACK">>, <<1, 2, "ACK">>, <<3, 2, "ACK">>, <<5, 2, "FIN">>},
             {<<0, 3, "ACK">>} >>

(* Segments that belong to no stream: to a closed port, of no session, and *)
(* a SYN without data; in the build with memory, those to a closed port.   *)
(* None with data among SYN and RST, whose branches take no decision about *)
(* it (rx_engine.cpp:1363, 1539).                                          *)
MCStrays == {<<2, "PORT", 0>>, <<2, "MISS", 1>>, <<2, "SYN", 0>>}
MCPort == {<<2, "PORT", 1>>}

Bypass == INSTANCE ReceivePath WITH
    Sessions <- RxSessions, Builds <- {"bypass"}, BufferSize <- RxBuffer, AccessSize <- RxAccess,
    FifoSize <- RxFifo, Margin <- RxMargin, NoteDepth <- RxNotes, First <- RxFirst, Depth <- RxDepth,
    Strays <- MCStrays, statuses <- rxStatuses, asked <- rxAsked

(* A ring of two blocks, which session 1 fills from the middle.            *)
Scaled == INSTANCE ReceivePath WITH
    Sessions <- RxSessions, Builds <- {"scaled"}, BufferSize <- RxBuffer, AccessSize <- RxAccess,
    FifoSize <- RxFifo, Margin <- RxMargin, NoteDepth <- RxNotes, First <- RxFirst, Depth <- RxDepth,
    Cuts <- <<{<<0, 1, "ACK">>, <<1, 2, "ACK">>, <<3, 2, "ACK">>, <<5, 2, "ACK">>}, {}>>,
    Strays <- {}, statuses <- rxStatuses, asked <- rxAsked

(* The client with requests that are left behind and a connection torn     *)
(* down, beside a server whose port cannot be opened; and a server that    *)
(* opens two ports and receives.                                           *)
ScatterClient == INSTANCE ScatterKernel WITH
    UseConn <- 2, UseIpAddr <- 2, UsePort <- 1, BasePort <- 1, PkgWords <- 2, PkgNum <- 3, Depth <- 1,
    UsablePorts <- {}, MaxRuns <- 2, MaxRefusals <- 1, MaxTearDowns <- 1, Packets <- {1}, MaxPackets <- 0,
    openQ <- sOpenQ, openStatusQ <- sOpenStatusQ, metaQ <- sMetaQ, statusQ <- sStatusQ, dataQ <- sDataQ,
    notifQ <- sNotifQ, readQ <- sReadQ, rxMetaQ <- sRxMetaQ, rxQ <- sRxQ
ScatterServer == INSTANCE ScatterKernel WITH
    UseConn <- 1, UseIpAddr <- 2, UsePort <- 2, BasePort <- 1, PkgWords <- 1, PkgNum <- 1, Depth <- 1,
    UsablePorts <- {1, 2}, MaxRuns <- 1, MaxRefusals <- 0, MaxTearDowns <- 0, Packets <- {1, 2}, MaxPackets <- 2,
    openQ <- sOpenQ, openStatusQ <- sOpenStatusQ, metaQ <- sMetaQ, statusQ <- sStatusQ, dataQ <- sDataQ,
    notifQ <- sNotifQ, readQ <- sReadQ, rxMetaQ <- sRxMetaQ, rxQ <- sRxQ

(* Packages in turn, the first connection's twice; and broadcasts.         *)
Turns == INSTANCE Communication WITH
    UseConn <- 2, BasePort <- 1, PkgWords <- 2, TotalWords <- 6, Depth <- 1, Parts <- {1, 2}, MaxRefusals <- 1,
    Calls <- {<<"scatter", "recvDataPtr">>, <<"sendData", "recvData">>, <<"sendDataSingleCon", "recvData">>},
    buffer <- castBuffer, listenQ <- lListenQ, wire <- lWire, memory <- lMemory
Casts == INSTANCE Communication WITH
    UseConn <- 2, BasePort <- 1, PkgWords <- 2, TotalWords <- 4, Depth <- 1, Parts <- {2}, MaxRefusals <- 1,
    Calls <- {<<"broadcast", "recvData">>, <<"broadcastPtr", "recvDataPtr">>},
    buffer <- castBuffer, listenQ <- lListenQ, wire <- lWire, memory <- lMemory

MCInit ==
    /\ Init /\ ScatterClient!Init
    /\ \/ turn \in {"send", "bypass", "client", "server", "turns", "casts"} /\ Bypass!Init
       \/ turn = "memory" /\ Receive!Init
       \/ turn = "scaled" /\ Scaled!Init
    /\ IF turn = "turns" THEN Turns!Init ELSE Casts!Init
    /\ turn \notin {"turns", "casts"} => sender.call = "broadcast"

MCNext ==
    \/ turn = "send" /\ Next /\ UNCHANGED <<receiveVars, scatterVars, libraryVars, turn>>
    \/ turn = "bypass" /\ Bypass!Next /\ UNCHANGED <<vars, scatterVars, libraryVars, turn>>
    \/ turn = "memory" /\ Receive!Next /\ UNCHANGED <<vars, scatterVars, libraryVars, turn>>
    \/ turn = "scaled" /\ Scaled!Next /\ UNCHANGED <<vars, scatterVars, libraryVars, turn>>
    \/ turn = "client" /\ ScatterClient!Next /\ UNCHANGED <<vars, receiveVars, libraryVars, turn>>
    \/ turn = "server" /\ ScatterServer!Next /\ UNCHANGED <<vars, receiveVars, libraryVars, turn>>
    \/ turn = "turns" /\ Turns!Next /\ UNCHANGED <<vars, receiveVars, scatterVars, turn>>
    \/ turn = "casts" /\ Casts!Next /\ UNCHANGED <<vars, receiveVars, scatterVars, turn>>

MCSpec == MCInit /\ [][MCNext]_<<vars, receiveVars, scatterVars, libraryVars, turn>>

(* A kernel at one end has what the one at the other end sent, and writes  *)
(* whole packages where the toe has made room for them.                    *)
KernelsTransfer ==
    /\ turn = "client" => ScatterClient!ScatterIsWhole
    /\ turn = "server" => ScatterServer!ScatterIsWhole
    /\ turn = "turns" => Turns!TransferIsExact
    /\ turn = "casts" => Casts!TransferIsExact
=============================================================================
