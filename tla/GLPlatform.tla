------------------------------ MODULE GLPlatform ------------------------------
(***************************************************************************)
(* OpenGL platform detection (src/src/libkwineffects/kwinglplatform.cpp). *)
(* GLPlatform::detect reads the context's vendor, renderer and version    *)
(* strings and extension list once, picks a driver and a chip class from  *)
(* them, and then derives the feature flags and the compositor it         *)
(* recommends, block by block, each block overriding what earlier ones    *)
(* set.                                                                    *)
(*                                                                         *)
(* A string is abstracted to what the code asks of it: the substrings it  *)
(* tests for that it contains (subs), the numbers its regular expressions *)
(* extract (nums, keyed by pattern), its length (len) and, where the code *)
(* compares it whole, its text (exact).  A renderer adds the prefix the   *)
(* code tests with startsWith and its space-separated tokens (tok).       *)
(***************************************************************************)
EXTENDS Integers, SequencesExt

CONSTANTS Contexts,      \* the GL contexts detect may meet
          ValidVersions  \* the tokens Version::parseString turns into a valid version

VARIABLES ctx,       \* the current context
          iface,     \* the platformInterface detect was called with
          platform,  \* the GLPlatform members detect computes
          phase      \* "constructed" or "detected"

vars == <<ctx, iface, platform, phase>>

-----------------------------------------------------------------------------
(* The ChipClass enumeration, family by family in the order               *)
(* chipClassToString8 lists it (kwinglplatform.h is not in this          *)
(* repository): within a family a later class is a newer chip, and each   *)
(* family ends with its Unknown class.                                     *)
RadeonClasses == <<"R100", "R200", "R300", "R400", "R500", "R600", "R700",
                   "Evergreen", "NorthernIslands", "SouthernIslands",
                   "SeaIslands", "VolcanicIslands", "ArcticIslands", "Vega",
                   "Navi", "UnknownRadeon">>
NVidiaClasses == <<"NV10", "NV20", "NV30", "NV40", "G80", "GF100", "UnknownNVidia">>
IntelClasses  == <<"I8XX", "I915", "I965", "SandyBridge", "IvyBridge", "Haswell",
                   "BayTrail", "Cherryview", "Broadwell", "ApolloLake", "Skylake",
                   "GeminiLake", "KabyLake", "CoffeeLake", "WhiskeyLake",
                   "CometLake", "CannonLake", "IceLake", "TigerLake", "UnknownIntel">>
AdrenoClasses   == <<"Adreno1XX", "Adreno2XX", "Adreno3XX", "Adreno4XX", "Adreno5XX", "UnknownAdreno">>
PanfrostClasses == <<"MaliT7XX", "MaliT8XX", "MaliGXX", "UnknownPanfrost">>
LimaClasses     == <<"Mali400", "Mali450", "Mali470", "UnknownLima">>
VC4Classes      == <<"VC4_2_1", "UnknownVideoCore4">>
V3DClasses      == <<"V3D_4_2", "UnknownVideoCore3D">>

\* The drivers declared before Driver_Llvmpipe in the Driver enumeration.
DriversBelowLlvmpipe == {"R100", "R200", "R300C", "R300G", "R600C", "R600G",
                         "Nouveau", "Intel", "NVidia", "Catalyst", "Swrast", "Softpipe"}

(* isRadeon, isNvidia, isIntel, isAdreno, isPanfrost, isLima,             *)
(* isVideoCore4, isVideoCore3D: the chip class lies in the family's range. *)
InFamily(fam, chip) == \E i \in DOMAIN fam : fam[i] = chip

-----------------------------------------------------------------------------
(* The chip-class detectors.  Each tests groups of substrings in order    *)
(* and returns the class of the first group the chipset contains.         *)
FirstGroup(t, groups, otherwise) ==
    LET hits == {i \in DOMAIN groups : groups[i][1] \cap t.subs # {}}
    IN IF hits = {} THEN otherwise ELSE groups[Min(hits)][2]

RadeonGroups ==
    << <<{"R100", "RV100", "RS100"}, "R100">>,
       <<{"RV200", "RS200", "R200", "RV250", "RS300", "RV280"}, "R200">>,
       <<{"R300", "R350", "R360", "RV350", "RV370", "RV380"}, "R300">>,
       <<{"R420", "R423", "R430", "R480", "R481", "RV410", "RS400", "RC410",
          "RS480", "RS482", "RS600", "RS690", "RS740"}, "R400">>,
       <<{"RV515", "R520", "RV530", "R580", "RV560", "RV570"}, "R500">>,
       <<{"R600", "RV610", "RV630", "RV670", "RV620", "RV635", "RS780", "RS880"}, "R600">>,
       <<{"R700", "RV770", "RV730", "RV710", "RV740"}, "R700">>,
       <<{"EVERGREEN", "CEDAR", "REDWOOD", "JUNIPER", "CYPRESS", "HEMLOCK", "PALM"}, "Evergreen">>,
       <<{"SUMO", "SUMO2", "BARTS", "TURKS", "CAICOS", "CAYMAN"}, "NorthernIslands">>,
       <<{"TAHITI", "PITCAIRN", "VERDE", "OLAND", "HAINAN"}, "SouthernIslands">>,
       <<{"BONAIRE", "KAVERI", "KABINI", "HAWAII", "MULLINS"}, "SeaIslands">>,
       <<{"TONGA", "TOPAZ", "FIJI", "CARRIZO", "STONEY"}, "VolcanicIslands">>,
       <<{"POLARIS10", "POLARIS11", "POLARIS12", "VEGAM"}, "ArcticIslands">>,
       <<{"VEGA10", "VEGA12", "VEGA20", "RAVEN", "RAVEN2", "RENOIR", "ARCTURUS"}, "Vega">>,
       <<{"NAVI10", "NAVI12", "NAVI14"}, "Navi">> >>

(* "HD nnnn": Palm parts, then HD 6xxx, 5xxx, 4xxx and 2xxx/3xxx.         *)
HdClass(id) ==
    CASE id \in {6250, 6310}            -> "Evergreen"
      [] id \in 6000..6999 \ {6250, 6310} -> "NorthernIslands"
      [] id \in 5000..5999              -> "Evergreen"
      [] id \in 4000..4999              -> "R700"
      [] id \in 2000..3999              -> "R600"
      [] OTHER                          -> "UnknownRadeon"

(* "Xnnn" or "Xnnnn", the number after the X.                              *)
XClass(id) ==
    CASE id >= 1300                                   -> "R500"
      [] id \in 700..999 \/ id \in 1200..1299         -> "R400"
      [] id \in 300..699 \/ id \in 1000..1199         -> "R300"
      [] OTHER                                        -> "UnknownRadeon"

(* A group of four digits.                                                 *)
DigitsClass(id) ==
    CASE id \in 7000..7999 -> "R100"
      [] id \in 8000..9499 -> "R200"
      [] id >= 9500        -> "R300"
      [] id = 2100         -> "R400"
      [] OTHER             -> "UnknownRadeon"

(* detectRadeonClass: code names first, then the marketing number.        *)
DetectRadeonClass(t) ==
    IF t.len = 0 THEN "UnknownRadeon"
    ELSE FirstGroup(t, RadeonGroups,
           IF "hd" \in DOMAIN t.nums THEN HdClass(t.nums["hd"])
           ELSE IF "x" \in DOMAIN t.nums THEN XClass(t.nums["x"])
           ELSE IF "digits" \in DOMAIN t.nums THEN DigitsClass(t.nums["digits"])
           ELSE "UnknownRadeon")

(* detectNVidiaClass: the "NVxx" name.  The id is parsed from the whole   *)
(* chipset after its first two characters, so it is the name's hex value *)
(* only when the chipset is the name itself; otherwise toInt fails and    *)
(* yields 0.                                                               *)
NvParsedId(t) == IF t.len = 4 THEN t.nums["nv"] ELSE 0

NvSwitch(id) ==
    LET nibble == (id % 256) \div 16
    IN CASE nibble \in {0, 1}        -> "NV10"
         [] nibble = 2               -> "NV20"
         [] nibble = 3               -> "NV30"
         [] nibble \in {4, 6}        -> "NV40"
         [] nibble \in {5, 8, 9, 10} -> "G80"
         [] OTHER                    -> "UnknownNVidia"

GeForce4MX == {"MX 420", "MX 440", "MX 460", "MX 4000", "PCX 4300"}

DetectNVidiaClass(t) ==
    IF "nv" \in DOMAIN t.nums THEN NvSwitch(NvParsedId(t))
    ELSE IF {"GeForce2", "GeForce 256"} \cap t.subs # {} THEN "NV10"
    ELSE IF "GeForce3" \in t.subs THEN "NV20"
    ELSE IF "GeForce4" \in t.subs
         THEN IF GeForce4MX \cap t.subs # {} THEN "NV10" ELSE "NV20"
    ELSE IF "gf4" \in DOMAIN t.nums
         THEN IF t.nums["gf4"] < 6000 THEN "NV30"
              ELSE IF t.nums["gf4"] < 8000 THEN "NV40" ELSE "G80"
    ELSE IF "gf3" \in DOMAIN t.nums /\ t.nums["gf3"] \in 100..599
         THEN IF t.nums["gf3"] >= 400 THEN "GF100" ELSE "G80"
    ELSE "UnknownNVidia"

IntelGroups ==
    << <<{"845G", "830M", "852GM/855GM", "865G"}, "I8XX">>,
       <<{"915G", "E7221G", "915GM", "945G", "945GM", "945GME", "Q33", "Q35",
          "G33", "965Q", "946GZ", "IGD"}, "I915">>,
       <<{"965G", "G45/G43", "965GM", "965GME/GLE", "GM45", "Q45/Q43", "G41",
          "B43", "Ironlake"}, "I965">>,
       <<{"Sandybridge", "SNB GT"}, "SandyBridge">>,
       <<{"Ivybridge", "IVB GT"}, "IvyBridge">>,
       <<{"Haswell", "HSW GT"}, "Haswell">>,
       <<{"BYT"}, "BayTrail">>, <<{"CHV", "BSW"}, "Cherryview">>,
       <<{"BDW GT"}, "Broadwell">>, <<{"SKL GT"}, "Skylake">>,
       <<{"APL"}, "ApolloLake">>, <<{"KBL GT"}, "KabyLake">>,
       <<{"WHL GT"}, "WhiskeyLake">>, <<{"CML GT"}, "CometLake">>,
       <<{"CNL GT"}, "CannonLake">>, <<{"CFL GT"}, "CoffeeLake">>,
       <<{"ICL GT"}, "IceLake">>, <<{"TGL GT"}, "TigerLake">> >>

DetectIntelClass(t) == FirstGroup(t, IntelGroups, "UnknownIntel")

(* detectQualcommClass: the third space-separated part as a number.       *)
DetectQualcommClass(t, parts) ==
    IF "Adreno" \notin t.subs THEN "UnknownChipClass"
    ELSE IF Len(parts) < 3 \/ "int" \notin DOMAIN parts[3].nums THEN "UnknownAdreno"
    ELSE LET v == parts[3].nums["int"]
         IN IF v \in 100..599 THEN AdrenoClasses[v \div 100] ELSE "UnknownAdreno"

DetectPanfrostClass(t) ==
    FirstGroup(t, << <<{"T720", "T760"}, "MaliT7XX">>,
                     <<{"T820", "T830", "T860", "T880"}, "MaliT8XX">>,
                     <<{"G31", "G51", "G52", "G57", "G72", "G76"}, "MaliGXX">> >>,
               "UnknownPanfrost")

DetectLimaClass(t) ==
    FirstGroup(t, << <<{"400"}, "Mali400">>, <<{"450"}, "Mali450">>,
                     <<{"470"}, "Mali470">> >>, "UnknownLima")

DetectVC4Class(t) == IF "2.1" \in t.subs THEN "VC4_2_1" ELSE "UnknownVideoCore4"

DetectV3DClass(t) == IF "4.2" \in t.subs THEN "V3D_4_2" ELSE "UnknownVideoCore3D"

-----------------------------------------------------------------------------
(* The enumerations' order.  ChipClass values of a family are consecutive *)
(* and UnknownChipClass comes last; isRadeon() and the other is* tests    *)
(* are ranges of it.                                                       *)
ChipOrder == RadeonClasses \o NVidiaClasses \o IntelClasses \o AdrenoClasses
             \o LimaClasses \o PanfrostClasses \o VC4Classes \o V3DClasses
             \o <<"UnknownChipClass">>

\* m_chipClass < c
ChipLess(a, b) ==
    SelectInSeq(ChipOrder, LAMBDA x : x = a) < SelectInSeq(ChipOrder, LAMBDA x : x = b)

IsRadeon(p) == InFamily(RadeonClasses, p.chip)
IsNvidia(p) == InFamily(NVidiaClasses, p.chip)
IsIntel(p)  == InFamily(IntelClasses, p.chip)
IsPanfrost(p) == InFamily(PanfrostClasses, p.chip)
IsLima(p) == InFamily(LimaClasses, p.chip)
IsVideoCore4(p) == InFamily(VC4Classes, p.chip)
IsVideoCore3D(p) == InFamily(V3DClasses, p.chip)

(* The GLPlatform constructor's member values.                             *)
Defaults ==
    [driver |-> "Unknown", chip |-> "UnknownChipClass",
     compositor |-> "QPainterCompositing", looseBinding |-> FALSE,
     supportsGLSL |-> FALSE, limitedGLSL |-> FALSE, textureNPOT |-> FALSE,
     limitedNPOT |-> FALSE, packInvert |-> FALSE, virtualMachine |-> FALSE,
     preferBufferSubData |-> FALSE, mesa |-> FALSE, gallium |-> FALSE]

GLSLExtensions == {"GL_ARB_shader_objects", "GL_ARB_fragment_shader", "GL_ARB_vertex_shader"}
Extensions == GLSLExtensions \cup {"GL_ARB_texture_non_power_of_two", "GL_MESA_pack_invert"}

(* The position, 1-based, of the first token equal to w, 0 if none:       *)
(* indexOf plus one.                                                       *)
TokenIndex(seq, w) == SelectInSeq(seq, LAMBDA x : x = w)

(* QByteArray::mid(1, -1): drops the leading "(" of the chipset token,    *)
(* which is in none of the substrings or number patterns tested.          *)
Mid1(t) == [t EXCEPT !.len = @ - 1]

\* The substrings of the renderer that select R600G and RadeonSI.
R600GSubs == {"R6", "R7", "RV6", "RV7", "RS780", "RS880", "CEDAR", "REDWOOD",
              "JUNIPER", "CYPRESS", "HEMLOCK", "PALM", "EVERGREEN", "SUMO",
              "SUMO2", "BARTS", "TURKS", "CAICOS", "CAYMAN"}
RadeonSISubs == {"TAHITI", "PITCAIRN", "VERDE", "OLAND", "HAINAN", "BONAIRE",
                 "KAVERI", "KABINI", "HAWAII", "MULLINS", "TOPAZ", "TONGA",
                 "FIJI", "CARRIZO", "STONEY", "POLARIS10", "POLARIS11",
                 "POLARIS12", "VEGAM", "VEGA10", "VEGA12", "VEGA20", "RAVEN",
                 "RAVEN2", "RENOIR", "ARCTURUS", "NAVI10", "NAVI12", "NAVI14"}

\* The chipset "IGD" the Intel branch substitutes.
IgdText == [subs |-> {"IGD"}, nums |-> [k \in {} |-> 0], len |-> 3, exact |-> "IGD"]

Result(d, ch) == [driver |-> d, chip |-> ch, gallium |-> FALSE, oob |-> FALSE]
OutOfRange == [Result("Unknown", "UnknownChipClass") EXCEPT !.oob = TRUE]

(* The version token after the keyword w (indexOf(w) + 1) lies past the   *)
(* end of the version string; indexOf's -1 makes it token 0.              *)
NextTokenMissing(vt, w) == TokenIndex(vt, w) + 1 > Len(vt)

(* The Gallium branch: m_chipset and m_galliumVersion from the renderer's *)
(* tokens, then the vendor and renderer tests in order.                   *)
GalliumDriverAndChip(c) ==
    LET r == c.rend
        tok == c.tok
        gal == "Gallium" \in r.subs
        amd == gal /\ Len(tok) >= 4 /\ tok[4].exact \in {"AMD", "ATI"}
    IN IF gal /\ (Len(tok) < 4 \/ (amd /\ Len(tok) < 5)) THEN OutOfRange
       ELSE
       LET chipset == IF ~gal THEN tok[1] ELSE IF amd THEN tok[5] ELSE tok[4]
           dc == IF c.vendor = "X.Org R300 Project"
                   THEN Result("R300G", DetectRadeonClass(chipset))
                 ELSE IF c.vendor = "X.Org" /\ R600GSubs \cap r.subs # {}
                   THEN Result("R600G", DetectRadeonClass(chipset))
                 ELSE IF c.vendor \in {"X.Org", "AMD"} /\ RadeonSISubs \cap r.subs # {}
                   THEN Result("RadeonSI", DetectRadeonClass(r))
                 ELSE IF c.vendor = "nouveau"
                   THEN Result("Nouveau", DetectNVidiaClass(chipset))
                 ELSE IF chipset.exact = "softpipe" THEN Result("Softpipe", "UnknownChipClass")
                 ELSE IF chipset.exact = "llvmpipe" THEN Result("Llvmpipe", "UnknownChipClass")
                 ELSE IF c.vendor = "VMware, Inc." /\ "SVGA3D" \in chipset.subs
                   THEN Result("VMware", "UnknownChipClass")
                 ELSE IF r.exact = "virgl" THEN Result("Virgl", "UnknownChipClass")
                 ELSE Result("Unknown", "UnknownChipClass")
       IN [dc EXCEPT !.gallium = ~gal \/ tok[2].exact \in ValidVersions]

(* The Mesa classic, proprietary and virtual-hardware branches of detect, *)
(* tested in order, falling through to the Gallium branch.                 *)
DriverAndChip(c) ==
    LET r == c.rend
        vt == c.version
    IN IF "Mesa DRI R" \in c.starts
       THEN IF Len(c.tok) < 4 THEN OutOfRange
            ELSE LET cc == c.tok[3].exact
                 IN Result(CASE cc = "R100" -> "R100" [] cc = "R200" -> "R200"
                             [] cc = "R300" -> "R300C" [] cc = "R600" -> "R600C"
                             [] OTHER -> "Unknown",
                           DetectRadeonClass(Mid1(c.tok[4])))
       ELSE IF "Intel" \in r.subs
       THEN Result("Intel", DetectIntelClass(
                IF "Intel(R) Integrated Graphics Device" \in c.starts THEN IgdText ELSE r))
       ELSE IF c.vendor = "ATI Technologies Inc."
       THEN IF Len(vt) = 2 THEN OutOfRange   \* versionTokens.at(2) when count() == 2
            ELSE Result("Catalyst", DetectRadeonClass(r))
       ELSE IF c.vendor = "NVIDIA Corporation"
       THEN IF NextTokenMissing(vt, "NVIDIA") THEN OutOfRange
            ELSE Result("NVidia", DetectNVidiaClass(r))
       ELSE IF c.vendor = "Qualcomm" THEN Result("Qualcomm", DetectQualcommClass(r, c.tok))
       ELSE IF "Panfrost" \in r.subs THEN Result("Panfrost", DetectPanfrostClass(r))
       ELSE IF "Mali" \in r.subs THEN Result("Lima", DetectLimaClass(r))
       ELSE IF "VC4 " \in c.starts THEN Result("VC4", DetectVC4Class(r))
       ELSE IF "V3D " \in c.starts THEN Result("V3D", DetectV3DClass(r))
       ELSE IF r.exact = "Software Rasterizer" THEN Result("Swrast", "UnknownChipClass")
       ELSE IF c.vendor = "Humper" /\ r.exact = "Chromium"
       THEN IF NextTokenMissing(vt, "Chromium") THEN OutOfRange
            ELSE Result("VirtualBox", "UnknownChipClass")
       ELSE GalliumDriverAndChip(c)

-----------------------------------------------------------------------------
(* The driver- and GPU-specific blocks of detect, in the code's order;    *)
(* each takes the members as the blocks before it left them.              *)

(* Radeon block with m_limitedGLSL taken before GLSL is cleared for R200. *)
RadeonFeaturesLimitedFirst(p, r) ==
    IF ~IsRadeon(p) THEN p
    ELSE LET old == ChipLess(p.chip, "R600")
         IN [p EXCEPT !.supportsGLSL = @ /\ ~ChipLess(p.chip, "R300"),
                      !.limitedGLSL = old /\ p.supportsGLSL,
                      !.textureNPOT = IF old /\ p.driver = "Catalyst" THEN FALSE ELSE @,
                      !.limitedNPOT = old /\ p.driver = "R300G" /\ p.textureNPOT,
                      !.compositor = IF old THEN "NoCompositing" ELSE "OpenGLCompositing",
                      !.looseBinding = @ \/ p.driver = "R600G"
                                         \/ (p.driver = "R600C" /\ "DRI2" \in r.subs)]

(* isRadeon(): no GLSL below R300; below R600 NPOT is limited (R300G) or  *)
(* off (Catalyst), GLSL is limited and compositing is off; R600G and      *)
(* R600C on DRI2 bind loosely.                                             *)
RadeonFeatures(p, r) ==
    IF ~IsRadeon(p) THEN p
    ELSE LET old == ChipLess(p.chip, "R600")
             glsl == p.supportsGLSL /\ ~ChipLess(p.chip, "R300")
         IN [p EXCEPT !.supportsGLSL = glsl,
                      !.limitedGLSL = old /\ glsl,
                      !.textureNPOT = IF old /\ p.driver = "Catalyst" THEN FALSE ELSE @,
                      !.limitedNPOT = old /\ p.driver = "R300G" /\ p.textureNPOT,
                      !.compositor = IF old THEN "NoCompositing" ELSE "OpenGLCompositing",
                      !.looseBinding = @ \/ p.driver = "R600G"
                                         \/ (p.driver = "R600C" /\ "DRI2" \in r.subs)]

(* isNvidia(): the blob loses GLSL below NV40 and binds loosely; below    *)
(* NV40 compositing is off and NPOT limited, below G80 GLSL is limited.   *)
NvidiaFeatures(p) ==
    IF ~IsNvidia(p) THEN p
    ELSE LET blob == p.driver = "NVidia"
             preNV40 == ChipLess(p.chip, "NV40")
             glsl == p.supportsGLSL /\ ~(blob /\ preNV40)
         IN [p EXCEPT !.supportsGLSL = glsl,
                      !.looseBinding = @ \/ blob,
                      !.preferBufferSubData = @ \/ blob,
                      !.compositor = IF preNV40 THEN "NoCompositing" ELSE "OpenGLCompositing",
                      !.limitedNPOT = p.textureNPOT /\ preNV40,
                      !.limitedGLSL = glsl /\ ChipLess(p.chip, "G80")]

(* Intel block that turns compositing off for I915 as well.               *)
IntelFeaturesOffByOne(p) ==
    IF ~IsIntel(p) THEN p
    ELSE LET glsl == p.supportsGLSL /\ ~ChipLess(p.chip, "I915")
         IN [p EXCEPT !.supportsGLSL = glsl,
                      !.limitedGLSL = glsl /\ ChipLess(p.chip, "I965"),
                      !.looseBinding = FALSE,
                      !.compositor = IF ChipLess(p.chip, "I965") THEN "NoCompositing"
                                     ELSE "OpenGLCompositing"]

(* isIntel(): no GLSL and no compositing below I915, limited GLSL below   *)
(* I965, never loose binding.                                              *)
IntelFeatures(p) ==
    IF ~IsIntel(p) THEN p
    ELSE LET glsl == p.supportsGLSL /\ ~ChipLess(p.chip, "I915")
         IN [p EXCEPT !.supportsGLSL = glsl,
                      !.limitedGLSL = glsl /\ ChipLess(p.chip, "I965"),
                      !.looseBinding = FALSE,
                      !.compositor = IF ChipLess(p.chip, "I915") THEN "NoCompositing"
                                     ELSE "OpenGLCompositing"]

(* Panfrost and Lima get OpenGL (Lima with GLSL), VideoCore 4 and 3D      *)
(* QPainter.                                                               *)
ArmFeatures(p) ==
    CASE IsPanfrost(p) -> [p EXCEPT !.compositor = "OpenGLCompositing"]
      [] IsLima(p) -> [p EXCEPT !.compositor = "OpenGLCompositing", !.supportsGLSL = TRUE]
      [] IsVideoCore4(p) \/ IsVideoCore3D(p) -> [p EXCEPT !.compositor = "QPainterCompositing"]
      [] OTHER -> p

(* Mesa's EGL needs no strict binding.                                     *)
MesaEglFeatures(p, i) ==
    IF p.mesa /\ i = "EglPlatformInterface" THEN [p EXCEPT !.looseBinding = TRUE] ELSE p

(* isSoftwareEmulation(): QPainter and no GLSL below llvmpipe, else       *)
(* OpenGL with full GLSL.                                                  *)
SoftwareFeatures(p, c) ==
    IF ~c.software THEN p
    ELSE IF p.driver \in DriversBelowLlvmpipe
         THEN [p EXCEPT !.compositor = "QPainterCompositing", !.limitedGLSL = FALSE,
                        !.supportsGLSL = FALSE]
         ELSE [p EXCEPT !.compositor = "OpenGLCompositing", !.limitedGLSL = FALSE,
                        !.supportsGLSL = TRUE]

(* The remaining blocks: Qualcomm, unknown hardware, virtual machines and *)
(* the GLES override, in that order.                                       *)
LateFeatures(p, c) ==
    LET q == IF p.driver = "Qualcomm"
             THEN [p EXCEPT !.compositor = IF p.chip = "Adreno1XX" THEN "NoCompositing"
                                           ELSE "OpenGLCompositing"]
             ELSE p
        u == IF q.chip = "UnknownChipClass" /\ q.driver = "Unknown"
             THEN [q EXCEPT !.compositor = "OpenGLCompositing", !.supportsGLSL = TRUE]
             ELSE q
        v == IF u.driver \in {"VirtualBox", "VMware", "Virgl"}
             THEN [u EXCEPT !.virtualMachine = TRUE, !.compositor = "OpenGLCompositing"]
             ELSE u
    IN IF c.gles THEN [v EXCEPT !.supportsGLSL = TRUE, !.limitedGLSL = FALSE] ELSE v

-----------------------------------------------------------------------------
NoContext == "none"

(* The constructor: no context yet, every member at its default.          *)
Init ==
    /\ ctx = NoContext /\ iface = "NoOpenGLPlatformInterface"
    /\ platform = Defaults /\ phase = "constructed"

(* The flags detect sets before the driver tests, from the extension list *)
(* (or GLES) and the Mesa version in the version string.                  *)
BaseFlags(c, exts) ==
    [Defaults EXCEPT !.supportsGLSL = c.gles \/ GLSLExtensions \subseteq exts,
                     !.textureNPOT = c.gles \/ "GL_ARB_texture_non_power_of_two" \in exts,
                     !.packInvert = "GL_MESA_pack_invert" \in exts,
                     !.mesa = TokenIndex(c.version, "Mesa") # 0
                              /\ c.version[TokenIndex(c.version, "Mesa") + 1] \in ValidVersions]

(* The version token after "Mesa" is read even when "Mesa" is the last.   *)
MesaTokenMissing(c) ==
    TokenIndex(c.version, "Mesa") # 0 /\ NextTokenMissing(c.version, "Mesa")

(* GLPlatform::detect on a fresh platform with context c, extension list  *)
(* exts and platform interface i.  A token read past the end of a list    *)
(* is undefined behaviour, and detect's result is then undefined.         *)
Detect(c, exts, i) ==
    /\ phase = "constructed"
    /\ ctx' = c /\ iface' = i
    /\ IF MesaTokenMissing(c) THEN phase' = "undefined" /\ UNCHANGED platform
       ELSE LET dc == DriverAndChip(c)
                p0 == [BaseFlags(c, exts) EXCEPT !.driver = dc.driver, !.chip = dc.chip,
                                                 !.gallium = dc.gallium]
                p1 == NvidiaFeatures(RadeonFeatures(p0, c.rend))
                p2 == MesaEglFeatures(ArmFeatures(IntelFeatures(p1)), i)
            IN IF dc.oob THEN phase' = "undefined" /\ UNCHANGED platform
               ELSE phase' = "detected" /\ platform' = LateFeatures(SoftwareFeatures(p2, c), c)

(* GLPlatform::cleanup: s_platform.reset(); the next instance() builds a  *)
(* new platform with the constructor's values.                             *)
Cleanup ==
    /\ phase = "detected"
    /\ ctx' = NoContext /\ iface' = "NoOpenGLPlatformInterface"
    /\ platform' = Defaults /\ phase' = "constructed"

Next ==
    \/ \E c \in Contexts, exts \in SUBSET Extensions,
          i \in {"EglPlatformInterface", "GlxPlatformInterface"} : Detect(c, exts, i)
    \/ Cleanup

Spec == Init /\ [][Next]_vars

-----------------------------------------------------------------------------
(* Properties.                                                             *)

(* The feature flags stay consistent through detect's cascade of blocks,  *)
(* each overriding the ones before: a limited feature is a supported one, *)
(* and only chips old enough to need it are marked limited.               *)
FlagsConsistent ==
    phase = "detected" =>
        /\ platform.limitedGLSL => platform.supportsGLSL
        /\ platform.limitedNPOT => platform.textureNPOT
        /\ platform.limitedGLSL =>
              \/ IsRadeon(platform) /\ ChipLess(platform.chip, "R600")
              \/ IsNvidia(platform) /\ ChipLess(platform.chip, "G80")
              \/ IsIntel(platform) /\ ChipLess(platform.chip, "I965")

(* The hardware KWin refuses to composite on: Radeon before R600, NVIDIA  *)
(* before NV40, Intel before I915 and Adreno 1xx, when the context is     *)
(* neither a software renderer nor a virtual machine's.                    *)
OldHardware(p) ==
    \/ IsRadeon(p) /\ ChipLess(p.chip, "R600")
    \/ IsNvidia(p) /\ ChipLess(p.chip, "NV40")
    \/ IsIntel(p) /\ ChipLess(p.chip, "I915")
    \/ p.driver = "Qualcomm" /\ p.chip = "Adreno1XX"

(* detect recommends NoCompositing exactly for that hardware: no later    *)
(* block turns an old chip's compositing back on, and no block turns it   *)
(* off for a chip the OpenGL compositor supports.                          *)
CompositingFollowsHardware ==
    phase = "detected" =>
        ((platform.compositor = "NoCompositing")
            <=> (OldHardware(platform) /\ ~ctx.software /\ ~platform.virtualMachine))
=============================================================================
