SPECIFICATION FairSpec
CONSTANTS
  Fd = {f1, f2}
  Room = {r1}
  NoRoom = NoRoom
  Listen = Listen
  Sig = Sig
  g_max_conns = 2
  Modes = {{"flush"}}
  k_header_size = 1
  k_max_payload = 0
  k_send_cap = 1
  k_tick_cap = 6
  NoticeLen = 0
  EntryLen = 1
  LineLen = {0}
PROPERTIES DoomedIsClosed SignalStops
