---------------------------- MODULE MCParkLight -----------------------------
EXTENDS ParkLight

MCLight(r, b, g) ==
  [c \in Colour |-> CASE c = "red" -> r [] c = "blue" -> b
                      [] c = "green" -> g [] OTHER -> "off"]
MCVdLights == {MCLight("on", "off", "off"), MCLight("on", "off", "flash"),
               MCLight("off", "off", "off")}
MCLights == MCVdLights \cup {Blue, Black}
=============================================================================
