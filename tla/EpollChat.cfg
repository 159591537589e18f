SPECIFICATION Spec
CONSTANTS
  Fd = {f1, f2}
  Room = {r1, r2}
  NoRoom = NoRoom
  Listen = Listen
  Sig = Sig
  g_max_conns = 2
  Modes = {{"flush"}, {}, {"coalesce"}}
  k_header_size = 1
  k_max_payload = 1
  k_send_cap = 2
  k_tick_cap = 1
  NoticeLen = 0
  EntryLen = 1
  LineLen = {0, 2}
INVARIANTS TickLinesHaveRoom ArmedIffPending RoomsMatchConns EventsReachTheirConnection
SYMMETRY Symmetry
