---------------------------- MODULE MCGLPlatform ----------------------------
(***************************************************************************)
(* GL contexts for checking GLPlatform::detect: the sample strings the    *)
(* code's comments quote, and the vendor, renderer and version strings    *)
(* the drivers it recognises report.  Each string is written as the       *)
(* substrings of the code's tests it contains and the numbers its         *)
(* patterns extract; the renderer also as its space-separated tokens.     *)
(***************************************************************************)
EXTENDS GLPlatform

NoNums == [k \in {} |-> 0]

\* A string: tested substrings, extracted numbers, length, text.
T(subs, nums, len, e) == [subs |-> subs, nums |-> nums, len |-> len, exact |-> e]
\* A token none of whose substrings or numbers is tested.
W(e) == T({}, NoNums, 1, e)

Ctx(vendor, rend, starts, tok, version, gles, software) ==
    [vendor |-> vendor, rend |-> rend, starts |-> starts, tok |-> tok,
     version |-> version, gles |-> gles, software |-> software]

\* Mesa DRI R200 (RV280 5964) 20090101 x86/MMX+/3DNow!+/SSE2 TCL
MesaR200 == Ctx("Tungsten Graphics, Inc.", T({"RV280"}, NoNums, 50, "Mesa DRI R200 (RV280 ..."),
                {"Mesa DRI R"},
                <<W("Mesa"), W("DRI"), W("R200"), T({"RV280"}, NoNums, 6, "(RV280"), W("5964")>>,
                <<"1.3", "Mesa", "7.6">>, FALSE, FALSE)
\* Mesa DRI R300 (RV350 4E50) 20090101 x86/MMX/SSE2 TCL
MesaR300 == Ctx("DRI R300 Project", T({"RV350", "R300"}, NoNums, 50, "Mesa DRI R300 (RV350 ..."),
                {"Mesa DRI R"},
                <<W("Mesa"), W("DRI"), W("R300"), T({"RV350"}, NoNums, 6, "(RV350"), W("4E50")>>,
                <<"2.1", "Mesa", "7.6">>, FALSE, FALSE)
\* Mesa DRI R600 (RV740 94B3) 20090101 x86/MMX/SSE2 TCL DRI2
MesaR600 == Ctx("Advanced Micro Devices, Inc.",
                T({"R600", "R6", "RV7", "RV740", "DRI2"}, NoNums, 58, "Mesa DRI R600 (RV740 ..."),
                {"Mesa DRI R"},
                <<W("Mesa"), W("DRI"), W("R600"), T({"RV740", "RV7"}, NoNums, 6, "(RV740"), W("94B3")>>,
                <<"2.1", "Mesa", "7.7">>, FALSE, FALSE)
\* Mesa DRI Mobile Intel(R) GM45 Express Chipset GEM 20100328 2010Q1
IntelGM45 == Ctx("Tungsten Graphics, Inc.", T({"Intel", "GM45"}, NoNums, 62, "Mesa DRI Mobile Intel ..."),
                 {}, <<W("Mesa"), W("DRI"), W("Mobile"), W("Intel(R)"), W("GM45")>>,
                 <<"2.1", "Mesa", "7.8.1">>, FALSE, FALSE)
\* Intel(R) Integrated Graphics Device
IntelIGD == Ctx("Tungsten Graphics, Inc.", T({"Intel"}, NoNums, 35, "Intel(R) Integrated Graphics Device"),
                {"Intel(R) Integrated Graphics Device"},
                <<W("Intel(R)"), W("Integrated"), W("Graphics"), W("Device")>>,
                <<"1.4", "Mesa", "7.11">>, FALSE, FALSE)
\* Mesa DRI Intel(R) 845G GEM 20100330 DEVELOPMENT
Intel845G == Ctx("Tungsten Graphics, Inc.", T({"Intel", "845G"}, NoNums, 46, "Mesa DRI Intel(R) 845G ..."),
                 {}, <<W("Mesa"), W("DRI"), W("Intel(R)"), W("845G")>>,
                 <<"1.3", "Mesa", "7.9">>, FALSE, FALSE)
\* Mesa DRI Intel(R) Haswell Mobile
IntelHaswell == Ctx("Intel Open Source Technology Center",
                    T({"Intel", "Haswell"}, NoNums, 33, "Mesa DRI Intel(R) Haswell Mobile"),
                    {}, <<W("Mesa"), W("DRI"), W("Intel(R)"), W("Haswell"), W("Mobile")>>,
                    <<"3.0", "Mesa", "10.1.3">>, FALSE, FALSE)
\* fglrx: ATI Radeon HD 5700 Series, 4.1.10750 Compatibility Profile Context
AtiHD5700 == Ctx("ATI Technologies Inc.", T({}, "hd" :> 5700, 25, "ATI Radeon HD 5700 Series"),
                 {}, <<W("ATI"), W("Radeon"), W("HD"), W("5700"), W("Series")>>,
                 <<"4.1.10750", "Compatibility", "Profile", "Context">>, FALSE, FALSE)
\* fglrx: RADEON 9600 Series, 2.0.6747 WinXP Release
Ati9600 == Ctx("ATI Technologies Inc.", T({}, "digits" :> 9600, 18, "RADEON 9600 Series"),
               {}, <<W("RADEON"), W("9600"), W("Series")>>,
               <<"2.0.6747", "WinXP", "Release">>, FALSE, FALSE)
\* fglrx: ATI Radeon X1300/X1550 Series, 2.1.8543 Release
AtiX1300 == Ctx("ATI Technologies Inc.", T({}, "x" :> 1300, 30, "ATI Radeon X1300/X1550 Series"),
                {}, <<W("ATI"), W("Radeon"), W("X1300/X1550"), W("Series")>>,
                <<"2.1.8543", "Release">>, FALSE, FALSE)
\* NVIDIA: GeForce 6800/AGP/SSE2, GeForce FX 5200/AGP/SSE2, GeForce GTX
\* 480/PCI/SSE2, GeForce4 MX 440/AGP/SSE2
\* (the NVIDIA branch never splits the renderer: its tokens are left out)
Nv(rend, version) == Ctx("NVIDIA Corporation", rend, {}, <<>>, version, FALSE, FALSE)
Nv6800 == Nv(T({}, "gf4" :> 6800, 26, "GeForce 6800/AGP/SSE2"), <<"2.1.2", "NVIDIA", "180.29">>)
NvFX5200 == Nv(T({}, "gf4" :> 5200, 25, "GeForce FX 5200/AGP/SSE2"), <<"2.1.2", "NVIDIA", "173.14">>)
NvGTX480 == Nv(T({}, "gf3" :> 480, 29, "GeForce GTX 480/PCI/SSE2"), <<"4.1.0", "NVIDIA", "260.19.06">>)
NvMX440 == Nv(T({"GeForce4", "MX 440"}, NoNums, 25, "GeForce4 MX 440/AGP/SSE2"), <<"1.5.8", "NVIDIA", "96.43.23">>)
\* r300g: Gallium 0.4 on ATI RV350
R300G == Ctx("X.Org R300 Project", T({"Gallium", "RV350"}, NoNums, 22, "Gallium 0.4 on ATI RV350"),
             {}, <<W("Gallium"), W("0.4"), W("on"), W("ATI"), T({"RV350"}, NoNums, 5, "RV350")>>,
             <<"2.1", "Mesa", "7.11">>, FALSE, FALSE)
\* r600g: Gallium 0.4 on AMD CEDAR
R600G == Ctx("X.Org", T({"Gallium", "CEDAR"}, NoNums, 22, "Gallium 0.4 on AMD CEDAR"),
             {}, <<W("Gallium"), W("0.4"), W("on"), W("AMD"), T({"CEDAR"}, NoNums, 5, "CEDAR")>>,
             <<"2.1", "Mesa", "7.10">>, FALSE, FALSE)
\* radeonsi: AMD Radeon R7 Graphics (CARRIZO, DRM 3.40.0, 5.10.0, LLVM 11.0.1)
Carrizo == Ctx("X.Org", T({"R7", "CARRIZO"}, NoNums, 66, "AMD Radeon R7 Graphics (CARRIZO, ..."),
               {}, <<T({}, NoNums, 3, "AMD"), W("Radeon"), W("R7"), W("Graphics"), W("(CARRIZO,")>>,
               <<"4.6", "(Compatibility", "Profile)", "Mesa", "20.3.5">>, FALSE, FALSE)
\* radeonsi: Radeon RX 580 Series (POLARIS10, DRM 3.42.0, 5.15.0, LLVM 13.0.0)
Polaris == Ctx("X.Org", T({"POLARIS10"}, NoNums, 68, "Radeon RX 580 Series (POLARIS10, ..."),
               {}, <<W("Radeon"), W("RX"), W("580"), W("Series"), W("(POLARIS10,")>>,
               <<"4.6", "(Compatibility", "Profile)", "Mesa", "21.2.6">>, FALSE, FALSE)
\* nouveau: Gallium 0.4 on NV43
NV43 == Ctx("nouveau", T({"Gallium"}, "nv" :> 67, 19, "Gallium 0.4 on NV43"),
            {}, <<W("Gallium"), W("0.4"), W("on"), T({}, "nv" :> 67, 4, "NV43")>>,
            <<"2.1", "Mesa", "7.9-devel">>, FALSE, FALSE)
\* llvmpipe (LLVM 15.0.7, 256 bits)
Llvmpipe == Ctx("Mesa/X.org", T({}, NoNums, 33, "llvmpipe (LLVM 15.0.7, 256 bits)"),
                {}, <<W("llvmpipe"), W("(LLVM"), W("15.0.7,"), W("256"), W("bits)")>>,
                <<"4.5", "(Core", "Profile)", "Mesa", "23.1.9">>, FALSE, TRUE)
\* Gallium 0.4 on softpipe
Softpipe == Ctx("VMware, Inc.", T({"Gallium"}, NoNums, 23, "Gallium 0.4 on softpipe"),
                {}, <<W("Gallium"), W("0.4"), W("on"), W("softpipe")>>,
                <<"2.1", "Mesa", "7.10">>, FALSE, TRUE)
\* Software Rasterizer
Swrast == Ctx("Mesa Project", T({}, NoNums, 19, "Software Rasterizer"),
              {}, <<W("Software"), W("Rasterizer")>>, <<"2.1", "Mesa", "7.10">>, FALSE, TRUE)
\* Gallium 0.4 on SVGA3D; build: RELEASE;
SVGA3D == Ctx("VMware, Inc.", T({"Gallium", "SVGA3D"}, NoNums, 39, "Gallium 0.4 on SVGA3D; build: RELEASE;"),
              {}, <<W("Gallium"), W("0.4"), W("on"), T({"SVGA3D"}, NoNums, 7, "SVGA3D;"), W("build:"), W("RELEASE;")>>,
              <<"2.1", "Mesa", "10.1.3">>, FALSE, FALSE)
\* virgl
Virgl == Ctx("Red Hat", T({}, NoNums, 5, "virgl"), {}, <<W("virgl")>>,
             <<"4.3", "(Core", "Profile)", "Mesa", "21.0.3">>, FALSE, FALSE)
\* VirtualBox: Humper / Chromium, 2.1 Chromium 1.9
Chromium == Ctx("Humper", T({}, NoNums, 8, "Chromium"), {}, <<W("Chromium")>>,
                <<"2.1", "Chromium", "1.9">>, FALSE, FALSE)
\* Adreno (TM) 540 and Adreno (TM) 130, OpenGL ES
Adreno(n) == Ctx("Qualcomm", T({"Adreno"}, NoNums, 15, "Adreno (TM) ..."), {},
                 <<W("Adreno"), W("(TM)"), T({}, "int" :> n, 3, "n")>>,
                 <<"OpenGL", "ES", "3.2", "V@331.0">>, TRUE, FALSE)
\* Mali T860 (Panfrost)
Panfrost == Ctx("Panfrost", T({"Panfrost", "Mali", "T860"}, NoNums, 20, "Mali T860 (Panfrost)"),
                {}, <<W("Mali"), W("T860"), W("(Panfrost)")>>, <<"2.1", "Mesa", "20.0.8">>, FALSE, FALSE)
\* Mali450, OpenGL ES 2.0 Mesa 20.0.8
Lima == Ctx("lima", T({"Mali", "450"}, NoNums, 7, "Mali450"), {}, <<W("Mali450")>>,
            <<"OpenGL", "ES", "2.0", "Mesa", "20.0.8">>, TRUE, FALSE)
\* VC4 V3D 2.1 and V3D 4.2, OpenGL ES
VC4 == Ctx("Broadcom", T({"2.1"}, NoNums, 11, "VC4 V3D 2.1"), {"VC4 "}, <<W("VC4"), W("V3D"), W("2.1")>>,
           <<"OpenGL", "ES", "2.0", "Mesa", "19.3.2">>, TRUE, FALSE)
V3D == Ctx("Broadcom", T({"4.2"}, NoNums, 7, "V3D 4.2"), {"V3D "}, <<W("V3D"), W("4.2")>>,
           <<"OpenGL", "ES", "3.1", "Mesa", "20.3.5">>, TRUE, FALSE)
\* A GPU detect does not know: Vivante GC2000 core
Vivante == Ctx("Vivante Corporation", T({}, NoNums, 11, "GC2000 core"), {}, <<W("GC2000"), W("core")>>,
               <<"OpenGL", "ES", "2.0">>, TRUE, FALSE)

MCContexts ==
    {MesaR200, MesaR300, MesaR600, IntelGM45, IntelIGD, Intel845G, IntelHaswell,
     AtiHD5700, Ati9600, AtiX1300, Nv6800, NvFX5200, NvGTX480, NvMX440,
     R300G, R600G, Carrizo, Polaris, NV43, Llvmpipe, Softpipe, Swrast, SVGA3D,
     Virgl, Chromium, Adreno(540), Adreno(130), Panfrost, Lima, VC4, V3D, Vivante}

MCValidVersions ==
    {"7.6", "7.7", "7.8.1", "7.9", "7.9-devel", "7.10", "7.11", "10.1.3",
     "19.3.2", "20.0.8", "20.3.5", "21.0.3", "21.2.6", "23.1.9", "0.4"}
=============================================================================
