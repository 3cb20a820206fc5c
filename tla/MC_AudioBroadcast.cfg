\* One RTP, two native and one unconnected receiver; the timeout (3 units,
\* standing for 500 ms) and the clock bound (5 units) let a stream start,
\* time out and restart;
\* 2-bit sequence numbers make every counter wrap.
CONSTANTS
    c1 = c1
    c2 = c2
    c3 = c3
    c4 = c4
    None = None
    Clients <- MC_Clients
    RtpClients <- MC_RtpClients
    NativeClients <- MC_NativeClients
    AudioTimeout = 3
    MaxTime = 5
    SeqBits = 2
SPECIFICATION Spec
INVARIANT TypeOK
INVARIANT SinkViewConsistent
PROPERTY ConsecutiveNumbers
