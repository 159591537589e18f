SPECIFICATION ChatSpec
CONSTANTS
    Fd = {f1, f2}
    g_slots = 2
    Letter = {r1, r2}
    Name <- MCName
    NUL = NUL
    Listen = Listen
    Sig = Sig
    g_max_conns = 2
    MaxEvents = 2
    k_header_size = 1
    k_max_payload = 0
    k_send_cap = 1
    NoticeLen = 0
    LineLen = {0}
PROPERTY ImplementsChat
SYMMETRY Symmetry
